---- MODULE Spec2Model ----
(***************************************************************************)
(* A model of the job queue of extrator-de-curriculo: the Firestore        *)
(* collection processing_queue, the HTTP handlers that claim, process,     *)
(* reset and delete its documents, and the invocations of those handlers   *)
(* that run concurrently against it.                                       *)
(*                                                                         *)
(* Every await on the store is one atomic step of the invocation that      *)
(* makes it; a Firestore transaction is a read step followed by a commit   *)
(* step that succeeds only if the document is unchanged since the read.    *)
(* Timestamps are milliseconds.                                            *)
(***************************************************************************)
EXTENDS Integers, Sequences, FiniteSets, TLC

VARIABLES
    store,      \* processing_queue: job id -> document (NoJob when absent)
    now,        \* the wall clock, Timestamp.now()
    procs,      \* handler invocations: id -> position and locals
    extracted,  \* job id -> the invocations that handed the job to the extractor
    claims,     \* job id -> number of writes of status 'processing'
    store0      \* the store when the invocations started (history)

vars == <<store, now, procs, extracted, claims, store0>>

----------------------------------------------------------------------------
(* Bounds *)

MaxJobs == 2
MaxClaimers == 3
MaxWorkers == 2
MaxTicks == 1
MaxBgWorkers == 2
MaxBatches == 2
LiveJobs == 4

JobIds == DOMAIN store
Users == {"u1", "u2"}
Statuses == {"pending", "processing", "completed", "failed"}

\* An unset timestamp field (undefined in the document).
None == -1

----------------------------------------------------------------------------
(* The store *)

\* A document that does not exist (jobDoc.exists is false).
NoJob ==
    [userId |-> "", status |-> "absent", text |-> "", createdAt |-> None,
     startedAt |-> None, finishedAt |-> None, result |-> "none",
     error |-> "none", retryCount |-> 0, resetAt |-> None]

Exists(doc) == doc.status # "absent"

\* A job as the submission path creates it: pending, never attempted.
NewJob(u, txt, t) ==
    [NoJob EXCEPT !.userId = u, !.status = "pending", !.text = txt, !.createdAt = t]

IsTerminal(doc) == doc.status \in {"completed", "failed"}

\* A query that lost its userId filter.
QueryAnyUser(st, u, s) == {j \in JobIds : st[j].status = s}

\* collection.where('userId', '==', u).where('status', '==', s)
Query(st, u, s) == {j \in JobIds : st[j].userId = u /\ st[j].status = s}

\* The subsets of S with k elements.
RECURSIVE KSubsets(_, _)
KSubsets(S, k) ==
    IF k = 0 THEN {{}}
    ELSE IF Cardinality(S) <= k THEN {S}
    ELSE LET x == CHOOSE y \in S : TRUE
         IN KSubsets(S \ {x}, k) \cup {T \cup {x} : T \in KSubsets(S \ {x}, k - 1)}

\* query.limit(n).get() without orderBy: Firestore returns the first n by
\* document id, which bears no relation to any field; any n of them.
Limit(S, n) == KSubsets(S, n)

\* Number of elements of S that come before j in (key, id) order.
Rank(st, S, j) ==
    Cardinality({k \in S : \/ st[k].createdAt < st[j].createdAt
                           \/ st[k].createdAt = st[j].createdAt /\ k < j})

\* query.orderBy('createdAt').limit(n).get(): the n smallest by createdAt.
OrderByCreatedAtLimit(st, S, n) == {j \in S : Rank(st, S, j) < n}

\* The same result as the ordered list snapshot.docs.
RECURSIVE SortedDocs(_, _)
SortedDocs(st, S) ==
    IF S = {} THEN <<>>
    ELSE LET j == CHOOSE x \in S : Rank(st, S, x) = 0
         IN <<j>> \o SortedDocs(st, S \ {j})

----------------------------------------------------------------------------
(* Handler invocations *)

\* The invocations of the run: the domain of procs.
ProcIds == DOMAIN procs

\* plan: the writes a batch has collected, per document.
NoPlan == [j \in JobIds |-> "none"]

IdleProc ==
    [kind |-> "idle", pc |-> "done", userId |-> "", jobId |-> 0,
     snap |-> NoJob, res |-> "none", ok |-> FALSE, data |-> "none",
     jobs |-> <<>>, i |-> 0, plan |-> NoPlan, docs |-> [j \in JobIds |-> NoJob], tnow |-> 0, w |-> 0, batchSize |-> 0,
     nOk |-> 0, nFail |-> 0, resp |-> 0]

Active(p) == procs[p].kind # "idle"

\* docRef.update(...) / transaction.update(...): a write to one document.
WriteDoc(j, doc) == store' = [store EXCEPT ![j] = doc]

Goto(p, label) == procs' = [procs EXCEPT ![p].pc = label]

----------------------------------------------------------------------------
(* claimJob(jobId, userId): part_003 107-145, process-single.js 91-124,    *)
(* part_006 140-174.  The three revisions differ only in bookkeeping       *)
(* fields (claimedAt, lastHeartbeat, processingNode).                      *)

\* transaction.get(jobRef)
ClaimGet(p) ==
    /\ procs[p].pc = "claim"
    /\ procs' = [procs EXCEPT ![p].snap = store[procs[p].jobId],
                              ![p].pc = "claimTxn"]
    /\ UNCHANGED <<store, now, extracted, claims, store0>>

\* The result of the transaction function on the document it read.
ClaimCheck(doc, userId) ==
    IF ~Exists(doc) THEN "NotFound"
    ELSE IF doc.userId # userId THEN "OwnershipMismatch"
    ELSE IF doc.status # "pending" THEN "NotClaimable"
    ELSE "success"

\* A store without optimistic concurrency control: every commit succeeds,
\* whatever happened to the document since the read.
TxnValidNoCheck(j, doc) == TRUE

\* The commit succeeds only if the document is as the transaction read it.
TxnValid(j, doc) == store[j] = doc

\* The body of the transaction function after the get, and its commit.
ClaimTxn(p) ==
    /\ procs[p].pc = "claimTxn"
    /\ LET j == procs[p].jobId
           doc == procs[p].snap
           r == ClaimCheck(doc, procs[p].userId)
       IN IF r # "success"
          THEN /\ procs' = [procs EXCEPT ![p].res = r, ![p].pc = "claimed"]
               /\ UNCHANGED <<store, claims>>
          ELSE IF TxnValid(j, doc)
          THEN /\ WriteDoc(j, [store[j] EXCEPT !.status = "processing",
                                               !.startedAt = now])
               /\ claims' = [claims EXCEPT ![j] = @ + 1]
               /\ procs' = [procs EXCEPT ![p].res = r, ![p].pc = "claimed"]
          ELSE \* contention: Firestore runs the transaction function again
               /\ Goto(p, "claim")
               /\ UNCHANGED <<store, claims>>
    /\ UNCHANGED <<now, extracted, store0>>

----------------------------------------------------------------------------
(* processJob(jobId, userId) of the batch endpoint: proxy.js 186-266 *)

\* transaction.get(jobRef)
PJGet(p) ==
    /\ procs[p].pc = "pjStart"
    /\ procs' = [procs EXCEPT ![p].snap = store[procs[p].jobId],
                              ![p].pc = "pjTxn"]
    /\ UNCHANGED <<store, now, extracted, claims, store0>>

\* The transaction function: throws on a missing or foreign job, skips a
\* job that is not pending, otherwise marks it processing.
PJTxn(p) ==
    /\ procs[p].pc = "pjTxn"
    /\ LET j == procs[p].jobId
           doc == procs[p].snap
           r == ClaimCheck(doc, procs[p].userId)
       IN IF r \in {"NotFound", "OwnershipMismatch"}
          THEN /\ procs' = [procs EXCEPT ![p].res = r, ![p].pc = "pjCatch"]
               /\ UNCHANGED <<store, claims>>
          ELSE IF r = "NotClaimable"
          THEN /\ procs' = [procs EXCEPT ![p].res = r, ![p].pc = "done"]
               /\ UNCHANGED <<store, claims>>
          ELSE IF TxnValid(j, doc)
          THEN /\ WriteDoc(j, [store[j] EXCEPT !.status = "processing",
                                               !.startedAt = now])
               /\ claims' = [claims EXCEPT ![j] = @ + 1]
               /\ procs' = [procs EXCEPT ![p].res = r, ![p].pc = "pjExtract"]
          ELSE /\ Goto(p, "pjStart")
               /\ UNCHANGED <<store, claims>>
    /\ UNCHANGED <<now, extracted, store0>>

\* extractWithGemini: the upstream answer, or fallbackExtraction on any
\* error; both return success.
PJExtract(p) ==
    /\ procs[p].pc = "pjExtract"
    /\ \E how \in {"gemini", "fallback"} :
          procs' = [procs EXCEPT ![p].ok = TRUE, ![p].data = how,
                                 ![p].pc = "pjSave"]
    /\ extracted' = [extracted EXCEPT ![procs[p].jobId] = @ \cup {p}]
    /\ UNCHANGED <<store, now, claims, store0>>

\* jobRef.update({status, finishedAt, result | error}); update() of a
\* missing document rejects, which lands in the catch block.
PJSave(p) ==
    /\ procs[p].pc = "pjSave"
    /\ LET j == procs[p].jobId
       IN IF Exists(store[j])
          THEN /\ WriteDoc(j, [store[j] EXCEPT !.status = "completed",
                                               !.finishedAt = now,
                                               !.result = procs[p].data])
               /\ Goto(p, "done")
          ELSE /\ Goto(p, "pjCatch")
               /\ UNCHANGED store
    /\ UNCHANGED <<now, extracted, claims, store0>>

\* catch (error): try to mark the job failed, then rethrow.
PJCatch(p) ==
    /\ procs[p].pc = "pjCatch"
    /\ LET j == procs[p].jobId
       IN IF Exists(store[j])
          THEN WriteDoc(j, [store[j] EXCEPT !.status = "failed",
                                            !.finishedAt = now,
                                            !.error = "thrown"])
          ELSE UNCHANGED store
    /\ procs' = [procs EXCEPT ![p].pc = "done", ![p].ok = FALSE]
    /\ UNCHANGED <<now, extracted, claims, store0>>

----------------------------------------------------------------------------
(* Time *)

\* 5 * 60 * 1000 in cleanupStuckJobs: the liveness window of start-processing.
FIVE_MINUTES == 5 * 60 * 1000

\* 24 * 60 * 60 * 1000 in cleanupOldJobs: the retention window.
ONE_DAY == 24 * 60 * 60 * 1000

\* The clock advances in steps of just over five minutes, at most MaxTicks
\* times; everything an invocation does between two ticks happens at one instant.
TickMs == FIVE_MINUTES + 1
Now0 == ONE_DAY + 2 * TickMs

Tick ==
    /\ now + TickMs <= Now0 + MaxTicks * TickMs
    /\ now' = now + TickMs
    /\ UNCHANGED <<store, procs, extracted, claims, store0>>

----------------------------------------------------------------------------
(* POST /api/process-job, transactional revision: part_003 16-102, 285-322 *)

Worker(j, u) ==
    [IdleProc EXCEPT !.kind = "worker", !.pc = "claim", !.jobId = j, !.userId = u]

\* An invocation slot that is free to take a request.
FreeSlot(w) == procs[w].kind = "idle"

\* ETAPA 1: a failed claim schedules processNextJob and answers 200.
WAfterClaim(p) ==
    /\ procs[p].kind = "worker"
    /\ procs[p].pc = "claimed"
    /\ procs' = IF procs[p].res = "success"
                THEN [procs EXCEPT ![p].pc = "gemini"]
                ELSE [procs EXCEPT ![p].pc = "next", ![p].resp = 200]
    /\ UNCHANGED <<store, now, extracted, claims, store0>>

\* ETAPA 2: processWithGemini on the claimed snapshot; when it fails
\* (timeout, upstream error) and the text is not empty, extractWithFallback,
\* which returns success.
WGemini(p) ==
    /\ procs[p].kind = "worker"
    /\ procs[p].pc = "gemini"
    /\ \E g \in {"gemini", "timeout", "upstream"} :
          LET text == procs[p].snap.text
              ok == g = "gemini" \/ text # ""
              data == IF g = "gemini" THEN "gemini"
                      ELSE IF text # "" THEN "fallback" ELSE g
          IN procs' = [procs EXCEPT ![p].ok = ok, ![p].data = data,
                                    ![p].pc = "save"]
    /\ extracted' = [extracted EXCEPT ![procs[p].jobId] = @ \cup {p}]
    /\ UNCHANGED <<store, now, claims, store0>>

\* The document after jobRef.update({status, finishedAt, result | error}).
Saved(doc, ok, data, t) ==
    IF ok THEN [doc EXCEPT !.status = "completed", !.finishedAt = t, !.result = data]
    ELSE [doc EXCEPT !.status = "failed", !.finishedAt = t, !.error = data]

\* ETAPA 3 and 4: save the result, schedule processNextJob, answer 200.
\* update() of a deleted document rejects; the catch block's own update
\* rejects too and is swallowed, and the handler still answers 200.
WSave(p) ==
    /\ procs[p].kind = "worker"
    /\ procs[p].pc = "save"
    /\ LET j == procs[p].jobId
       IN IF Exists(store[j])
          THEN WriteDoc(j, Saved(store[j], procs[p].ok, procs[p].data, now))
          ELSE UNCHANGED store
    /\ procs' = [procs EXCEPT ![p].pc = "next", ![p].resp = 200]
    /\ UNCHANGED <<now, extracted, claims, store0>>

\* A processNextJob that never finds a job: the chain ends with the jobs
\* the starter triggered.
NextPendingNone(u) == {}

\* processNextJob(userId): the oldest pending job of the user, if any.
NextPending(u) == OrderByCreatedAtLimit(store, Query(store, u, "pending"), 1)

\* processNextJob: POST /api/process-job for the oldest pending job.
WNextSend(p) ==
    /\ procs[p].kind = "worker"
    /\ procs[p].pc = "next"
    /\ \E j \in NextPending(procs[p].userId) :
       \E w \in ProcIds :
          /\ FreeSlot(w)
          /\ \A v \in ProcIds : FreeSlot(v) => w <= v
          /\ procs' = [procs EXCEPT ![w] = Worker(j, procs[p].userId),
                                    ![p].pc = "done"]
    /\ UNCHANGED <<store, now, extracted, claims, store0>>

\* processNextJob: the queue is empty, the request fails, or the timer never
\* runs because the function instance is gone.
WNextNone(p) ==
    /\ procs[p].kind = "worker"
    /\ procs[p].pc = "next"
    /\ Goto(p, "done")
    /\ UNCHANGED <<store, now, extracted, claims, store0>>

\* processNextJob finds the queue of the user empty and returns.
WNextEmpty(p) ==
    /\ procs[p].kind = "worker"
    /\ procs[p].pc = "next"
    /\ NextPending(procs[p].userId) = {}
    /\ Goto(p, "done")
    /\ UNCHANGED <<store, now, extracted, claims, store0>>

\* The invocation is over: its answer was delivered or given up on, and its
\* timer has run.
WExit(p) ==
    /\ procs[p].kind = "worker"
    /\ procs[p].pc = "done"
    /\ ~ \E q \in ProcIds : procs[q].pc = "await" /\ procs[q].w = p
    /\ procs' = [procs EXCEPT ![p] = IdleProc]
    /\ extracted' = [j \in JobIds |-> extracted[j] \ {p}]
    /\ UNCHANGED <<store, now, claims, store0>>

\* processNextJob when the timer fires after the answer was taken: the
\* request for the oldest pending job is served as this invocation ends, and
\* the new invocation takes its place.
WNextChain(p) ==
    /\ procs[p].kind = "worker"
    /\ procs[p].pc = "next"
    /\ ~ \E q \in ProcIds : procs[q].pc = "await" /\ procs[q].w = p
    /\ \E j \in NextPending(procs[p].userId) :
          procs' = [procs EXCEPT ![p] = Worker(j, procs[p].userId)]
    /\ extracted' = [j \in JobIds |-> extracted[j] \ {p}]
    /\ UNCHANGED <<store, now, claims, store0>>

----------------------------------------------------------------------------
(* POST /api/start-processing: start-processing.js *)

\* .limit(50) in cleanupOldJobs
OLD_JOBS_LIMIT == 50

\* findPendingJobs(userId, 3) in the handler
MAX_SIMULTANEOUS == 3

Starter(u) == [IdleProc EXCEPT !.kind = "start", !.pc = "cleanupOld", !.userId = u]

\* cleanupOldJobs: the query for finishedAt <= oneDayAgo and the deletes the
\* forEach schedules (completed or failed only).
SPCleanupOldRead(p) ==
    /\ procs[p].kind = "start"
    /\ procs[p].pc = "cleanupOld"
    /\ LET old == {j \in JobIds : /\ store[j].userId = procs[p].userId
                                  /\ store[j].finishedAt # None
                                  /\ store[j].finishedAt <= now - ONE_DAY}
       IN \E docs \in Limit(old, OLD_JOBS_LIMIT) :
            LET del == {j \in docs : IsTerminal(store[j])}
            IN procs' = [procs EXCEPT
                   ![p].plan = [j \in JobIds |-> IF j \in del THEN "delete" ELSE "none"],
                   ![p].pc = IF del = {} THEN "stuckRead" ELSE "cleanupOldCommit"]
    /\ UNCHANGED <<store, now, extracted, claims, store0>>

\* cleanupOldJobs: batch.commit() of the deletes.
SPCleanupOldCommit(p) ==
    /\ procs[p].kind = "start"
    /\ procs[p].pc = "cleanupOldCommit"
    /\ store' = [j \in JobIds |->
                    IF procs[p].plan[j] = "delete" THEN NoJob ELSE store[j]]
    /\ procs' = [procs EXCEPT ![p].plan = NoPlan, ![p].pc = "stuckRead"]
    /\ UNCHANGED <<now, extracted, claims, store0>>

\* The write cleanupStuckJobs schedules for a processing document it read.
StuckPlan(doc, t) ==
    IF doc.startedAt # None /\ doc.startedAt < t - FIVE_MINUTES
    THEN "fail" ELSE "reset"

\* cleanupStuckJobs: the query for the user's processing jobs, and the
\* forEach that fills the batch.
SPStuckRead(p) ==
    /\ procs[p].kind = "start"
    /\ procs[p].pc = "stuckRead"
    /\ LET S == Query(store, procs[p].userId, "processing")
       IN procs' = [procs EXCEPT
              ![p].plan = [j \in JobIds |->
                              IF j \in S THEN StuckPlan(store[j], now) ELSE "none"],
              ![p].tnow = now,
              ![p].pc = IF S = {} THEN "findPending" ELSE "stuckCommit"]
    /\ UNCHANGED <<store, now, extracted, claims, store0>>

\* A batch that carries the updates to failed and drops the resets.
StuckWriteFailOnly(doc, what, t) ==
    IF what = "fail"
    THEN [doc EXCEPT !.status = "failed", !.finishedAt = t, !.error = "stuck"]
    ELSE doc

\* The document after one batched update of cleanupStuckJobs.
StuckWrite(doc, what, t) ==
    IF what = "fail"
    THEN [doc EXCEPT !.status = "failed", !.finishedAt = t, !.error = "stuck"]
    ELSE IF what = "reset"
    THEN [doc EXCEPT !.status = "pending", !.resetAt = t]
    ELSE doc

\* cleanupStuckJobs: batch.commit().  The batch is atomic and rejects when
\* one of its documents no longer exists; the catch block returns zeros.
SPStuckCommit(p) ==
    /\ procs[p].kind = "start"
    /\ procs[p].pc = "stuckCommit"
    /\ LET plan == procs[p].plan
       IN IF \A j \in JobIds : plan[j] # "none" => Exists(store[j])
          THEN store' = [j \in JobIds |-> StuckWrite(store[j], plan[j], procs[p].tnow)]
          ELSE UNCHANGED store
    /\ procs' = [procs EXCEPT ![p].pc = "findPending"]
    /\ UNCHANGED <<now, extracted, claims, store0>>

\* findPendingJobs(userId, 3); no pending job answers 200.
SPFindPending(p) ==
    /\ procs[p].kind = "start"
    /\ procs[p].pc = "findPending"
    /\ LET S == OrderByCreatedAtLimit(store, Query(store, procs[p].userId, "pending"),
                                      MAX_SIMULTANEOUS)
       IN procs' = IF S = {}
                   THEN [procs EXCEPT ![p].pc = "done", ![p].resp = 200]
                   ELSE [procs EXCEPT ![p].jobs = SortedDocs(store, S), ![p].i = 1,
                                      ![p].pc = "trigger"]
    /\ UNCHANGED <<store, now, extracted, claims, store0>>

\* A handler that acknowledges with 202 whatever the triggers returned.
SPAdvanceAck(q, ok) ==
    LET nOk == q.nOk + (IF ok THEN 1 ELSE 0)
        nFail == q.nFail + (IF ok THEN 0 ELSE 1)
    IN IF q.i < Len(q.jobs)
       THEN [q EXCEPT !.nOk = nOk, !.nFail = nFail, !.i = q.i + 1, !.pc = "trigger"]
       ELSE [q EXCEPT !.nOk = nOk, !.nFail = nFail, !.pc = "done", !.resp = 202]

\* The end of one round of the loop of triggerMultipleJobs, and after the
\* last round the handler's answer: 202 if a trigger succeeded, else 500.
SPAdvance(q, ok) ==
    LET nOk == q.nOk + (IF ok THEN 1 ELSE 0)
        nFail == q.nFail + (IF ok THEN 0 ELSE 1)
    IN IF q.i < Len(q.jobs)
       THEN [q EXCEPT !.nOk = nOk, !.nFail = nFail, !.i = q.i + 1, !.pc = "trigger"]
       ELSE [q EXCEPT !.nOk = nOk, !.nFail = nFail, !.pc = "done",
                      !.resp = IF nOk > 0 THEN 202 ELSE 500]

\* triggerMultipleJobs: fetch(/api/process-job) reaches the endpoint, which
\* starts an invocation for the job.
SPTriggerSend(p) ==
    /\ procs[p].kind = "start"
    /\ procs[p].pc = "trigger"
    /\ \E w \in ProcIds :
          /\ FreeSlot(w)
          /\ \A v \in ProcIds : FreeSlot(v) => w <= v
          /\ procs' = [procs EXCEPT
                 ![w] = Worker(procs[p].jobs[procs[p].i], procs[p].userId),
                 ![p].w = w, ![p].pc = "await"]
    /\ UNCHANGED <<store, now, extracted, claims, store0>>

\* triggerMultipleJobs: fetch rejects without reaching the endpoint.
SPTriggerLost(p) ==
    /\ procs[p].kind = "start"
    /\ procs[p].pc = "trigger"
    /\ Goto(p, "markFailed")
    /\ UNCHANGED <<store, now, extracted, claims, store0>>

\* triggerMultipleJobs: the worker answered (response.ok).
SPAwaitOk(p) ==
    /\ procs[p].kind = "start"
    /\ procs[p].pc = "await"
    /\ procs[procs[p].w].resp = 200
    /\ procs' = [procs EXCEPT ![p] = SPAdvance(procs[p], TRUE)]
    /\ UNCHANGED <<store, now, extracted, claims, store0>>

\* triggerMultipleJobs: the 5 second abort fires, or the connection or the
\* platform fails, while the worker may be anywhere in its run.
SPAwaitFail(p) ==
    /\ procs[p].kind = "start"
    /\ procs[p].pc = "await"
    /\ Goto(p, "markFailed")
    /\ UNCHANGED <<store, now, extracted, claims, store0>>

\* triggerMultipleJobs, catch: mark the job failed (an update of a missing
\* document rejects and is swallowed).
SPMarkFailed(p) ==
    /\ procs[p].kind = "start"
    /\ procs[p].pc = "markFailed"
    /\ LET j == procs[p].jobs[procs[p].i]
       IN IF Exists(store[j])
          THEN WriteDoc(j, [store[j] EXCEPT !.status = "failed", !.finishedAt = now,
                                            !.error = "trigger"])
          ELSE UNCHANGED store
    /\ procs' = [procs EXCEPT ![p] = SPAdvance(procs[p], FALSE)]
    /\ UNCHANGED <<now, extracted, claims, store0>>

----------------------------------------------------------------------------
(* The dispatch chain: start-processing with the process-job workers *)

\* The documents the queue can hold when a trigger arrives, with createdAt c.
InitDocs(c) ==
    {NoJob}
    \cup {NewJob(u, "cv", c) : u \in Users}
    \cup {NewJob("u1", "", c)}
    \cup {[NewJob("u1", "cv", c) EXCEPT !.status = "processing", !.startedAt = t] :
            t \in {Now0, Now0 - TickMs}}
    \cup {[NewJob("u1", "cv", c) EXCEPT !.status = "completed", !.startedAt = t,
                                        !.finishedAt = t, !.result = "gemini"] :
            t \in {Now0, Now0 - ONE_DAY}}
    \cup {[NewJob("u1", "cv", c) EXCEPT !.status = "failed", !.startedAt = Now0,
                                        !.finishedAt = Now0, !.error = "upstream"]}

Init ==
    /\ store \in [1..MaxJobs -> UNION {InitDocs(c) : c \in {0, 1}}]
    /\ store0 = store
    /\ now = Now0
    /\ procs = [p \in 1..(1 + MaxWorkers) |->
                   IF p = 1 THEN Starter("u1") ELSE IdleProc]
    /\ extracted = [j \in JobIds |-> {}]
    /\ claims = [j \in JobIds |-> 0]

Next ==
    \/ Tick
    \/ \E p \in ProcIds : SPCleanupOldRead(p)
    \/ \E p \in ProcIds : SPCleanupOldCommit(p)
    \/ \E p \in ProcIds : SPStuckRead(p)
    \/ \E p \in ProcIds : SPStuckCommit(p)
    \/ \E p \in ProcIds : SPFindPending(p)
    \/ \E p \in ProcIds : SPTriggerSend(p)
    \/ \E p \in ProcIds : SPTriggerLost(p)
    \/ \E p \in ProcIds : SPAwaitOk(p)
    \/ \E p \in ProcIds : SPAwaitFail(p)
    \/ \E p \in ProcIds : SPMarkFailed(p)
    \/ \E p \in ProcIds : ClaimGet(p)
    \/ \E p \in ProcIds : ClaimTxn(p)
    \/ \E p \in ProcIds : WAfterClaim(p)
    \/ \E p \in ProcIds : WGemini(p)
    \/ \E p \in ProcIds : WSave(p)
    \/ \E p \in ProcIds : WNextSend(p)
    \/ \E p \in ProcIds : WNextNone(p)

Spec == Init /\ [][Next]_vars

----------------------------------------------------------------------------
(* POST /api/process-job, background revision: process-job.js 17-98 *)

\* The handler answers 202 and then starts processJobInBackground.
BgWorker(j, u) ==
    [IdleProc EXCEPT !.kind = "bg", !.pc = "bgGet", !.jobId = j, !.userId = u,
                     !.resp = 202]

\* jobRef.get() and the validity test; an invalid job goes on to triggerNextJob.
BGGet(p) ==
    /\ procs[p].kind = "bg"
    /\ procs[p].pc = "bgGet"
    /\ LET doc == store[procs[p].jobId]
       IN procs' = [procs EXCEPT
              ![p].snap = doc,
              ![p].pc = IF ~Exists(doc) \/ doc.status # "pending"
                        THEN "bgNext" ELSE "bgClaim"]
    /\ UNCHANGED <<store, now, extracted, claims, store0>>

\* jobRef.update({status: 'processing', startedAt}); on a missing document
\* update rejects and the catch block's update rejects as well.
BGClaim(p) ==
    /\ procs[p].kind = "bg"
    /\ procs[p].pc = "bgClaim"
    /\ LET j == procs[p].jobId
       IN IF Exists(store[j])
          THEN /\ WriteDoc(j, [store[j] EXCEPT !.status = "processing",
                                               !.startedAt = now])
               /\ claims' = [claims EXCEPT ![j] = @ + 1]
               /\ Goto(p, "bgGemini")
          ELSE /\ UNCHANGED <<store, claims>>
               /\ Goto(p, "done")
    /\ UNCHANGED <<now, extracted, store0>>

\* callGeminiAPI(jobData.text, ...): success with data, or {success: false}.
BGGemini(p) ==
    /\ procs[p].kind = "bg"
    /\ procs[p].pc = "bgGemini"
    /\ \E ok \in BOOLEAN :
          procs' = [procs EXCEPT ![p].ok = ok,
                                 ![p].data = IF ok THEN "gemini" ELSE "upstream",
                                 ![p].pc = "bgSave"]
    /\ extracted' = [extracted EXCEPT ![procs[p].jobId] = @ \cup {p}]
    /\ UNCHANGED <<store, now, claims, store0>>

\* The platform ends the invocation while it waits for Gemini (the answer
\* was sent before the background work began).
BGDie(p) ==
    /\ procs[p].kind = "bg"
    /\ procs[p].pc = "bgGemini"
    /\ Goto(p, "dead")
    /\ UNCHANGED <<store, now, extracted, claims, store0>>

\* jobRef.update to completed or failed, by the result of the extraction.
BGSave(p) ==
    /\ procs[p].kind = "bg"
    /\ procs[p].pc = "bgSave"
    /\ LET j == procs[p].jobId
       IN IF Exists(store[j])
          THEN /\ WriteDoc(j, Saved(store[j], procs[p].ok, procs[p].data, now))
               /\ Goto(p, "bgNext")
          ELSE /\ UNCHANGED store
               /\ Goto(p, "done")
    /\ UNCHANGED <<now, extracted, claims, store0>>

\* The save rejects (the store answers UNAVAILABLE, or the result exceeds the
\* document size limit): control passes to the catch block of 45-49.
BGSaveThrow(p) ==
    /\ procs[p].kind = "bg"
    /\ procs[p].pc = "bgSave"
    /\ Exists(store[procs[p].jobId])
    /\ procs' = [procs EXCEPT ![p].pc = "bgCatch", ![p].res = "thrown"]
    /\ UNCHANGED <<store, now, extracted, claims, store0>>

\* catch (error): update({status: 'failed', error}).catch(() => {}), and the
\* function returns; triggerNextJob is not called on this path.
BGCatch(p) ==
    /\ procs[p].kind = "bg"
    /\ procs[p].pc = "bgCatch"
    /\ LET j == procs[p].jobId
       IN IF Exists(store[j])
          THEN WriteDoc(j, [store[j] EXCEPT !.status = "failed",
                                            !.error = "Erro interno do worker."])
          ELSE UNCHANGED store
    /\ Goto(p, "done")
    /\ UNCHANGED <<now, extracted, claims, store0>>

\* triggerNextJob: POST /api/process-job for the oldest pending job.
BGNextSend(p) ==
    /\ procs[p].kind = "bg"
    /\ procs[p].pc = "bgNext"
    /\ \E j \in NextPending(procs[p].userId) :
       \E w \in ProcIds :
          /\ FreeSlot(w)
          /\ \A v \in ProcIds : FreeSlot(v) => w <= v
          /\ procs' = [procs EXCEPT ![w] = BgWorker(j, procs[p].userId),
                                    ![p].pc = "done"]
    /\ UNCHANGED <<store, now, extracted, claims, store0>>

\* triggerNextJob: the queue is empty, or fetch rejects and is logged.
BGNextNone(p) ==
    /\ procs[p].kind = "bg"
    /\ procs[p].pc = "bgNext"
    /\ Goto(p, "done")
    /\ UNCHANGED <<store, now, extracted, claims, store0>>

----------------------------------------------------------------------------
(* POST /api/start-processing, self-correcting starter: part_000 199-306 *)

\* retryCount < 2
MAX_RETRIES == 2

\* (currentTime - startedAt) > 60000
ONE_MINUTE == 60000

SelfStarter(u) ==
    [IdleProc EXCEPT !.kind = "selfStart", !.pc = "scStuckRead", !.userId = u]

isStuckTooLong(doc, t) == doc.startedAt # None /\ t - doc.startedAt > ONE_MINUTE

\* The write the forEach schedules for a processing document it read.
SelfPlan(doc, t) ==
    IF doc.retryCount < MAX_RETRIES \/ isStuckTooLong(doc, t)
    THEN "reset" ELSE "fail"

\* The reset with the retry counter incremented from the document as it is
\* at the commit.
SelfWriteIncrement(doc, what, read, t) ==
    IF what = "reset"
    THEN [doc EXCEPT !.status = "pending", !.retryCount = doc.retryCount + 1]
    ELSE IF what = "fail"
    THEN [doc EXCEPT !.status = "failed", !.error = "maxRetries"]
    ELSE doc

\* The document after one batched update; retryCount is computed from the
\* document as it was read.
SelfWrite(doc, what, read, t) ==
    IF what = "reset"
    THEN [doc EXCEPT !.status = "pending",
                     !.retryCount = read.retryCount
                                    + (IF isStuckTooLong(read, t) THEN 0 ELSE 1)]
    ELSE IF what = "fail"
    THEN [doc EXCEPT !.status = "failed", !.error = "maxRetries"]
    ELSE doc

\* The query for the user's processing jobs and the forEach over it.
SCStuckRead(p) ==
    /\ procs[p].kind = "selfStart"
    /\ procs[p].pc = "scStuckRead"
    /\ LET S == Query(store, procs[p].userId, "processing")
       IN procs' = [procs EXCEPT
              ![p].plan = [j \in JobIds |->
                              IF j \in S THEN SelfPlan(store[j], now) ELSE "none"],
              ![p].docs = [j \in JobIds |-> IF j \in S THEN store[j] ELSE NoJob],
              ![p].tnow = now,
              ![p].pc = IF S = {} THEN "scPending" ELSE "scStuckCommit"]
    /\ UNCHANGED <<store, now, extracted, claims, store0>>

\* batch.commit(); a rejected batch goes to the handler's catch (500).
SCStuckCommit(p) ==
    /\ procs[p].kind = "selfStart"
    /\ procs[p].pc = "scStuckCommit"
    /\ LET q == procs[p]
       IN IF \A j \in JobIds : q.plan[j] # "none" => Exists(store[j])
          THEN /\ store' = [j \in JobIds |->
                               SelfWrite(store[j], q.plan[j], q.docs[j], q.tnow)]
               /\ Goto(p, "scPending")
          ELSE /\ UNCHANGED store
               /\ procs' = [procs EXCEPT ![p].pc = "done", ![p].resp = 500]
    /\ UNCHANGED <<now, extracted, claims, store0>>

\* The three oldest pending jobs; 200 when there is none, else 202 before
\* the staggered timers fire.
SCFindPending(p) ==
    /\ procs[p].kind = "selfStart"
    /\ procs[p].pc = "scPending"
    /\ LET S == OrderByCreatedAtLimit(store, Query(store, procs[p].userId, "pending"),
                                      MAX_SIMULTANEOUS)
       IN procs' = IF S = {}
                   THEN [procs EXCEPT ![p].pc = "done", ![p].resp = 200]
                   ELSE [procs EXCEPT ![p].jobs = SortedDocs(store, S), ![p].i = 1,
                                      ![p].pc = "scTrigger", ![p].resp = 202]
    /\ UNCHANGED <<store, now, extracted, claims, store0>>

\* The end of one timer callback.
SCAdvance(q) ==
    IF q.i < Len(q.jobs)
    THEN [q EXCEPT !.i = q.i + 1]
    ELSE [q EXCEPT !.pc = "done"]

\* A timer fires and its fire-and-forget fetch reaches /api/process-job.
SCTriggerSend(p) ==
    /\ procs[p].kind = "selfStart"
    /\ procs[p].pc = "scTrigger"
    /\ \E w \in ProcIds :
          /\ FreeSlot(w)
          /\ \A v \in ProcIds : FreeSlot(v) => w <= v
          /\ procs' = [procs EXCEPT
                 ![w] = BgWorker(procs[p].jobs[procs[p].i], procs[p].userId),
                 ![p] = SCAdvance(procs[p])]
    /\ UNCHANGED <<store, now, extracted, claims, store0>>

\* A timer fires and its fetch rejects (logged by the .catch).
SCTriggerLost(p) ==
    /\ procs[p].kind = "selfStart"
    /\ procs[p].pc = "scTrigger"
    /\ procs' = [procs EXCEPT ![p] = SCAdvance(procs[p])]
    /\ UNCHANGED <<store, now, extracted, claims, store0>>

\* The client posts to the starter again.
SCStart(p) ==
    /\ procs[p].kind = "selfStart"
    /\ procs[p].pc = "done"
    /\ procs' = [procs EXCEPT ![p] = SelfStarter(procs[p].userId)]
    /\ UNCHANGED <<store, now, extracted, claims, store0>>

----------------------------------------------------------------------------
(* POST /api/process-batch: process-batch.js 20-180 *)

\* const { userId, batchSize = 5 } = request.body
BATCH_SIZE == 5

Batch(u, n) ==
    [IdleProc EXCEPT !.kind = "batch", !.pc = "pbFind", !.userId = u, !.batchSize = n]

\* findPendingJobs(userId, batchSize): pending jobs of the user, limit and no
\* orderBy; each found job gets its own processJobDirectly promise.
PBFind(p) ==
    /\ procs[p].kind = "batch"
    /\ procs[p].pc = "pbFind"
    /\ \E S \in Limit(Query(store, procs[p].userId, "pending"), procs[p].batchSize) :
          procs' = IF S = {}
                   THEN [procs EXCEPT ![p].pc = "done", ![p].resp = 200]
                   ELSE [procs EXCEPT
                            ![p].plan = [j \in JobIds |-> IF j \in S THEN "mark" ELSE "none"],
                            ![p].docs = [j \in JobIds |-> IF j \in S THEN store[j] ELSE NoJob],
                            ![p].pc = "pbRun"]
    /\ UNCHANGED <<store, now, extracted, claims, store0>>

\* processJobDirectly: jobRef.update({status: 'processing', startedAt}).  On
\* a missing document update rejects, and so does the update of the catch.
PBMark(p, j) ==
    /\ procs[p].kind = "batch"
    /\ procs[p].pc = "pbRun"
    /\ procs[p].plan[j] = "mark"
    /\ IF Exists(store[j])
       THEN /\ WriteDoc(j, [store[j] EXCEPT !.status = "processing", !.startedAt = now])
            /\ claims' = [claims EXCEPT ![j] = @ + 1]
            /\ procs' = [procs EXCEPT ![p].plan[j] = "gemini"]
       ELSE /\ UNCHANGED <<store, claims>>
            /\ procs' = [procs EXCEPT ![p].plan[j] = "failed"]
    /\ UNCHANGED <<now, extracted, store0>>

\* processWithGeminiOptimized, then extractWithSimpleFallback when it
\* fails; the fallback returns success.
PBGemini(p, j) ==
    /\ procs[p].kind = "batch"
    /\ procs[p].pc = "pbRun"
    /\ procs[p].plan[j] = "gemini"
    /\ \E how \in {"gemini", "fallback"} :
          procs' = [procs EXCEPT ![p].plan[j] = "save", ![p].docs[j].result = how]
    /\ extracted' = [extracted EXCEPT ![j] = @ \cup {p}]
    /\ UNCHANGED <<store, now, claims, store0>>

\* processJobDirectly: jobRef.update to completed with the result.
PBSave(p, j) ==
    /\ procs[p].kind = "batch"
    /\ procs[p].pc = "pbRun"
    /\ procs[p].plan[j] = "save"
    /\ IF Exists(store[j])
       THEN /\ WriteDoc(j, Saved(store[j], TRUE, procs[p].docs[j].result, now))
            /\ procs' = [procs EXCEPT ![p].plan[j] = "ok"]
       ELSE /\ UNCHANGED store
            /\ procs' = [procs EXCEPT ![p].plan[j] = "failed"]
    /\ UNCHANGED <<now, extracted, claims, store0>>

\* After Promise.allSettled: the counts, checkForMoreJobs and the answer.
PBCheckMore(p) ==
    /\ procs[p].kind = "batch"
    /\ procs[p].pc = "pbRun"
    /\ \A j \in JobIds : procs[p].plan[j] \in {"none", "ok", "failed"}
    /\ procs' = [procs EXCEPT
           ![p].nOk = Cardinality({j \in JobIds : procs[p].plan[j] = "ok"}),
           ![p].nFail = Cardinality({j \in JobIds : procs[p].plan[j] = "failed"}),
           ![p].resp = 200,
           ![p].pc = IF Query(store, procs[p].userId, "pending") # {}
                     THEN "pbChain" ELSE "done"]
    /\ UNCHANGED <<store, now, extracted, claims, store0>>

\* The timer posts the next batch to /api/process-batch.
PBChainSend(p) ==
    /\ procs[p].kind = "batch"
    /\ procs[p].pc = "pbChain"
    /\ \E w \in ProcIds :
          /\ FreeSlot(w)
          /\ \A v \in ProcIds : FreeSlot(v) => w <= v
          /\ procs' = [procs EXCEPT ![w] = Batch(procs[p].userId, procs[p].batchSize),
                                    ![p].pc = "done"]
    /\ UNCHANGED <<store, now, extracted, claims, store0>>

\* The timer's fetch rejects (logged), or the timer never runs.
PBChainLost(p) ==
    /\ procs[p].kind = "batch"
    /\ procs[p].pc = "pbChain"
    /\ Goto(p, "done")
    /\ UNCHANGED <<store, now, extracted, claims, store0>>

----------------------------------------------------------------------------
(* Cleanup cron: cleanup-jobs.js 17-124 *)

\* .limit(500) of the query for old jobs
OLD_QUERY_LIMIT == 500

\* "Create new batch every 100 operations"
BATCH_OPERATIONS == 100

\* .limit(100) of the query for stuck jobs
STUCK_QUERY_LIMIT == 100

\* 10 * 60 * 1000: the cron's window for stuck jobs
TEN_MINUTES == 10 * 60 * 1000

CleanupCron == [IdleProc EXCEPT !.kind = "cron", !.pc = "ccOld"]

\* The query finishedAt <= cutoff (every user), the early answer when it is
\* empty, and the forEach that schedules the deletes of terminal jobs.
CCOldRead(p) ==
    /\ procs[p].kind = "cron"
    /\ procs[p].pc = "ccOld"
    /\ LET old == {j \in JobIds : /\ store[j].finishedAt # None
                                  /\ store[j].finishedAt <= now - ONE_DAY}
       IN \E docs \in Limit(old, OLD_QUERY_LIMIT) :
            LET del == {j \in docs : IsTerminal(store[j])}
            IN procs' = IF docs = {}
                        THEN [procs EXCEPT ![p].tnow = now, ![p].pc = "done",
                                           ![p].resp = 200]
                        ELSE [procs EXCEPT
                                 ![p].tnow = now,
                                 ![p].plan = [j \in JobIds |->
                                                 IF j \in del THEN "delete" ELSE "none"],
                                 ![p].nOk = Cardinality(del),
                                 ![p].pc = IF del = {} THEN "ccStuck" ELSE "ccDelete"]
    /\ UNCHANGED <<store, now, extracted, claims, store0>>

\* The first BATCH_OPERATIONS scheduled deletes, in document order.
DeleteBatch(plan) ==
    {j \in JobIds : /\ plan[j] = "delete"
                    /\ Cardinality({k \in JobIds : plan[k] = "delete" /\ k < j})
                          < BATCH_OPERATIONS}

\* One of the batches commits (a delete of a missing document succeeds).
CCDelete(p) ==
    /\ procs[p].kind = "cron"
    /\ procs[p].pc = "ccDelete"
    /\ LET B == DeleteBatch(procs[p].plan)
           rest == {j \in JobIds : procs[p].plan[j] = "delete"} \ B
       IN /\ store' = [j \in JobIds |-> IF j \in B THEN NoJob ELSE store[j]]
          /\ procs' = [procs EXCEPT
                 ![p].plan = [j \in JobIds |-> IF j \in B THEN "none" ELSE procs[p].plan[j]],
                 ![p].pc = IF rest = {} THEN "ccStuck" ELSE "ccDelete"]
    /\ UNCHANGED <<now, extracted, claims, store0>>

\* The query for processing jobs with startedAt <= stuckCutoff, and the
\* forEach that schedules their update to failed.
CCStuckRead(p) ==
    /\ procs[p].kind = "cron"
    /\ procs[p].pc = "ccStuck"
    /\ LET stuck == {j \in JobIds : /\ store[j].status = "processing"
                                    /\ store[j].startedAt # None
                                    /\ store[j].startedAt <= now - TEN_MINUTES}
       IN \E S \in Limit(stuck, STUCK_QUERY_LIMIT) :
            procs' = IF S = {}
                     THEN [procs EXCEPT ![p].tnow = now, ![p].pc = "done", ![p].resp = 200]
                     ELSE [procs EXCEPT
                              ![p].tnow = now,
                              ![p].plan = [j \in JobIds |->
                                              IF j \in S THEN "fail" ELSE "none"],
                              ![p].nFail = Cardinality(S),
                              ![p].pc = "ccStuckCommit"]
    /\ UNCHANGED <<store, now, extracted, claims, store0>>

\* stuckBatch.commit(); a rejected batch goes to the catch (500).
CCStuckCommit(p) ==
    /\ procs[p].kind = "cron"
    /\ procs[p].pc = "ccStuckCommit"
    /\ LET q == procs[p]
       IN IF \A j \in JobIds : q.plan[j] # "none" => Exists(store[j])
          THEN /\ store' = [j \in JobIds |-> StuckWrite(store[j], q.plan[j], q.tnow)]
               /\ procs' = [procs EXCEPT ![p].pc = "done", ![p].resp = 200]
          ELSE /\ UNCHANGED store
               /\ procs' = [procs EXCEPT ![p].pc = "done", ![p].resp = 500]
    /\ UNCHANGED <<now, extracted, claims, store0>>

----------------------------------------------------------------------------
(* POST /api/start-processing, batch revision: part_002 331-436 *)

\* .limit(20) in basicCleanup
CLEANUP_LIMIT == 20

BasicStarter(u) ==
    [IdleProc EXCEPT !.kind = "basicStart", !.pc = "bcRead", !.userId = u]

\* basicCleanup: up to 20 processing jobs of the user, no orderBy; those
\* started more than five minutes ago are scheduled for a reset.
BCRead(p) ==
    /\ procs[p].kind = "basicStart"
    /\ procs[p].pc = "bcRead"
    /\ \E S \in Limit(Query(store, procs[p].userId, "processing"), CLEANUP_LIMIT) :
          LET reset == {j \in S : /\ store[j].startedAt # None
                                  /\ store[j].startedAt < now - FIVE_MINUTES}
          IN procs' = [procs EXCEPT
                 ![p].tnow = now,
                 ![p].plan = [j \in JobIds |-> IF j \in reset THEN "reset" ELSE "none"],
                 ![p].pc = IF reset = {} THEN "bcPending" ELSE "bcCommit"]
    /\ UNCHANGED <<store, now, extracted, claims, store0>>

\* basicCleanup: batch.commit(); a rejected batch is logged.
BCCommit(p) ==
    /\ procs[p].kind = "basicStart"
    /\ procs[p].pc = "bcCommit"
    /\ LET q == procs[p]
       IN IF \A j \in JobIds : q.plan[j] # "none" => Exists(store[j])
          THEN store' = [j \in JobIds |-> StuckWrite(store[j], q.plan[j], q.tnow)]
          ELSE UNCHANGED store
    /\ Goto(p, "bcPending")
    /\ UNCHANGED <<now, extracted, claims, store0>>

\* checkPendingJobs and the answer: 200 when nothing is pending, else the
\* request to /api/process-batch is scheduled and the answer is 202.
BCCheckPending(p) ==
    /\ procs[p].kind = "basicStart"
    /\ procs[p].pc = "bcPending"
    /\ procs' = [procs EXCEPT
           ![p].pc = "done",
           ![p].resp = IF Query(store, procs[p].userId, "pending") = {}
                       THEN 200 ELSE 202]
    /\ UNCHANGED <<store, now, extracted, claims, store0>>

----------------------------------------------------------------------------
(* Health check cron: part_000 16-66 *)

\* Date.now() - 90000
NINETY_SECONDS == 90000

HealthCheck == [IdleProc EXCEPT !.kind = "health", !.pc = "hcRead"]

\* The query for processing jobs started more than 90 seconds ago.
HCRead(p) ==
    /\ procs[p].kind = "health"
    /\ procs[p].pc = "hcRead"
    /\ LET S == {j \in JobIds : /\ store[j].status = "processing"
                                /\ store[j].startedAt # None
                                /\ store[j].startedAt < now - NINETY_SECONDS}
       IN procs' = IF S = {}
                   THEN [procs EXCEPT ![p].tnow = now, ![p].pc = "done", ![p].resp = 200]
                   ELSE [procs EXCEPT ![p].tnow = now, ![p].jobs = SortedDocs(store, S),
                                      ![p].i = 1, ![p].pc = "hcReset"]
    /\ UNCHANGED <<store, now, extracted, claims, store0>>

\* One round of the loop: update({status: 'pending'}) and the fire-and-forget
\* request to /api/process-job.  A rejected update ends the loop in the
\* catch (500).
HCReset(p) ==
    /\ procs[p].kind = "health"
    /\ procs[p].pc = "hcReset"
    /\ LET q == procs[p]
           j == q.jobs[q.i]
       IN IF Exists(store[j])
          THEN /\ WriteDoc(j, [store[j] EXCEPT !.status = "pending"])
               /\ procs' = [procs EXCEPT ![p] =
                      IF q.i < Len(q.jobs)
                      THEN [q EXCEPT !.i = q.i + 1]
                      ELSE [q EXCEPT !.pc = "done", !.resp = 200]]
          ELSE /\ UNCHANGED store
               /\ procs' = [procs EXCEPT ![p].pc = "done", ![p].resp = 500]
    /\ UNCHANGED <<now, extracted, claims, store0>>

\* The update of the round rejects (the store answers UNAVAILABLE): the
\* loop ends in the catch (500), the jobs after it are not reached.
HCResetThrow(p) ==
    /\ procs[p].kind = "health"
    /\ procs[p].pc = "hcReset"
    /\ Exists(store[procs[p].jobs[procs[p].i]])
    /\ procs' = [procs EXCEPT ![p].pc = "done", ![p].resp = 500, ![p].res = "thrown"]
    /\ UNCHANGED <<store, now, extracted, claims, store0>>

----------------------------------------------------------------------------
(* Concurrent claim attempts on one document *)

\* The states a document of the collection can be in.
JobStates ==
    {[NewJob(u, "cv", 0) EXCEPT
        !.status = s,
        !.startedAt = IF s = "pending" THEN None ELSE 0,
        !.finishedAt = IF s \in {"completed", "failed"} THEN 0 ELSE None,
        !.result = IF s = "completed" THEN "gemini" ELSE "none",
        !.error = IF s = "failed" THEN "upstream" ELSE "none"] :
     u \in Users, s \in Statuses}

Claimer(kind, u, j) ==
    [IdleProc EXCEPT !.kind = kind, !.userId = u, !.jobId = j,
                     !.pc = IF kind = "claimJob" THEN "claim" ELSE "pjStart"]

\* The requests that can arrive: either endpoint, either user. Requests of
\* the same kind are interchangeable, so the slots are filled in this order.
ClaimerKinds ==
    <<<<"claimJob", "u1">>, <<"claimJob", "u2">>, <<"processJob", "u1">>,
      <<"processJob", "u2">>>>

\* Job 1 in any state or absent; 1..MaxClaimers invocations, each a claimJob
\* call or a processJob call for job 1 on behalf of some user.
InitClaim ==
    /\ \E doc \in JobStates \cup {NoJob} :
          store = [j \in 1..MaxJobs |-> IF j = 1 THEN doc ELSE NoJob]
    /\ store0 = store
    /\ now = 0
    /\ \E n \in 1..MaxClaimers : \E t \in [1..n -> 1..Len(ClaimerKinds)] :
          /\ \A p \in 1..(n - 1) : t[p] <= t[p + 1]
          /\ procs = [p \in 1..MaxClaimers |->
                        IF p <= n THEN Claimer(ClaimerKinds[t[p]][1], ClaimerKinds[t[p]][2], 1)
                        ELSE IdleProc]
    /\ extracted = [j \in JobIds |-> {}]
    /\ claims = [j \in JobIds |-> 0]

NextClaim ==
    \/ \E p \in ProcIds : ClaimGet(p)
    \/ \E p \in ProcIds : ClaimTxn(p)
    \/ \E p \in ProcIds : PJGet(p)
    \/ \E p \in ProcIds : PJTxn(p)
    \/ \E p \in ProcIds : PJExtract(p)
    \/ \E p \in ProcIds : PJSave(p)
    \/ \E p \in ProcIds : PJCatch(p)

SpecClaim == InitClaim /\ [][NextClaim]_vars

----------------------------------------------------------------------------
(* The retry cycle: the self-correcting starter with the background workers *)

\* The documents of a queue that was filled and not yet started; job j was
\* created at time j.
FreshDocs(c) == {NoJob} \cup {NewJob(u, "cv", c) : u \in Users}

InitRetry ==
    /\ store \in [1..MaxJobs -> UNION {FreshDocs(c) : c \in 1..MaxJobs}]
    /\ \A j \in JobIds : Exists(store[j]) => store[j].createdAt = j
    /\ store0 = store
    /\ now = Now0
    /\ procs = [p \in 1..(1 + MaxBgWorkers) |->
                   IF p = 1 THEN SelfStarter("u1") ELSE IdleProc]
    /\ extracted = [j \in JobIds |-> {}]
    /\ claims = [j \in JobIds |-> 0]

NextRetry ==
    \/ Tick
    \/ \E p \in ProcIds : SCStart(p)
    \/ \E p \in ProcIds : SCStuckRead(p)
    \/ \E p \in ProcIds : SCStuckCommit(p)
    \/ \E p \in ProcIds : SCFindPending(p)
    \/ \E p \in ProcIds : SCTriggerSend(p)
    \/ \E p \in ProcIds : SCTriggerLost(p)
    \/ \E p \in ProcIds : BGGet(p)
    \/ \E p \in ProcIds : BGClaim(p)
    \/ \E p \in ProcIds : BGGemini(p)
    \/ \E p \in ProcIds : BGDie(p)
    \/ \E p \in ProcIds : BGSave(p)
    \/ \E p \in ProcIds : BGSaveThrow(p)
    \/ \E p \in ProcIds : BGCatch(p)
    \/ \E p \in ProcIds : BGNextSend(p)
    \/ \E p \in ProcIds : BGNextNone(p)

SpecRetry == InitRetry /\ [][NextRetry]_vars

----------------------------------------------------------------------------
(* Draining: concurrent requests to the batch processor *)

InitDrain ==
    /\ store \in [1..MaxJobs -> UNION {FreshDocs(c) : c \in 1..MaxJobs}]
    /\ \A j \in JobIds : Exists(store[j]) => store[j].createdAt = j
    /\ store0 = store
    /\ now = Now0
    /\ \E n1, n2 \in {1, BATCH_SIZE} :
          procs = [p \in 1..(MaxBatches + 1) |->
                      IF p = 1 THEN Batch("u1", n1)
                      ELSE IF p <= MaxBatches THEN Batch("u1", n2)
                      ELSE IdleProc]
    /\ extracted = [j \in JobIds |-> {}]
    /\ claims = [j \in JobIds |-> 0]

NextDrain ==
    \/ \E p \in ProcIds : PBFind(p)
    \/ \E p \in ProcIds, j \in JobIds : PBMark(p, j)
    \/ \E p \in ProcIds, j \in JobIds : PBGemini(p, j)
    \/ \E p \in ProcIds, j \in JobIds : PBSave(p, j)
    \/ \E p \in ProcIds : PBCheckMore(p)
    \/ \E p \in ProcIds : PBChainSend(p)
    \/ \E p \in ProcIds : PBChainLost(p)

SpecDrain == InitDrain /\ [][NextDrain]_vars

----------------------------------------------------------------------------
(* Sweeps: one sweep at a time over a queue no worker is running on *)

\* A job of u whose worker died t after claiming it.
Stuck(u, c, t) ==
    [NewJob(u, "cv", c) EXCEPT !.status = "processing", !.startedAt = Now0 - t]

\* The documents of a queue at rest, with createdAt c.
SweepDocs(c) ==
    {NoJob, NewJob("u1", "cv", c)}
    \cup {Stuck(u, c, t) : u \in Users, t \in {0, TickMs, 2 * TickMs}}
    \cup {[NewJob("u1", "cv", c) EXCEPT !.status = "completed", !.startedAt = t,
                                        !.finishedAt = t, !.result = "gemini"] :
            t \in {Now0, Now0 - ONE_DAY}}

\* A small queue of any documents, or a queue of CLEANUP_LIMIT + 1 jobs that
\* are all stuck.
InitSweep ==
    /\ \/ store \in [1..MaxJobs -> UNION {SweepDocs(c) : c \in 1..MaxJobs}]
          /\ \A j \in JobIds : Exists(store[j]) => store[j].createdAt = j
       \/ store = [j \in 1..(CLEANUP_LIMIT + 1) |-> Stuck("u1", j, 2 * TickMs)]
    /\ store0 = store
    /\ now = Now0
    /\ \E q \in {CleanupCron, BasicStarter("u1"), HealthCheck} :
          procs = [p \in {1} |-> q]
    /\ extracted = [j \in JobIds |-> {}]
    /\ claims = [j \in JobIds |-> 0]

NextSweep ==
    \/ Tick
    \/ \E p \in ProcIds : CCOldRead(p)
    \/ \E p \in ProcIds : CCDelete(p)
    \/ \E p \in ProcIds : CCStuckRead(p)
    \/ \E p \in ProcIds : CCStuckCommit(p)
    \/ \E p \in ProcIds : BCRead(p)
    \/ \E p \in ProcIds : BCCommit(p)
    \/ \E p \in ProcIds : BCCheckPending(p)
    \/ \E p \in ProcIds : HCRead(p)
    \/ \E p \in ProcIds : HCReset(p)
    \/ \E p \in ProcIds : HCResetThrow(p)

SpecSweep == InitSweep /\ [][NextSweep]_vars

----------------------------------------------------------------------------
(* The chain under fairness: one trigger, every request delivered *)

\* The starter and one worker instance: the requests to /api/process-job are
\* served one at a time, each when the instance is free.
LiveProcs == 1..2

\* What the oldest document of the queue can be when the trigger arrives;
\* the other jobs are pending, and job j was created at j.
LiveDocs(c) ==
    {NewJob("u1", "cv", c), NewJob("u1", "", c), Stuck("u1", c, 0),
     [NewJob("u1", "cv", c) EXCEPT !.status = "completed", !.startedAt = Now0 - ONE_DAY,
                                   !.finishedAt = Now0 - ONE_DAY, !.result = "gemini"]}

InitLive ==
    /\ \E doc \in LiveDocs(1) :
          store = [j \in 1..LiveJobs |-> IF j = 1 THEN doc ELSE NewJob("u1", "cv", j)]
    /\ store0 = store
    /\ now = Now0
    /\ procs = [p \in LiveProcs |-> IF p = 1 THEN Starter("u1") ELSE IdleProc]
    /\ extracted = [j \in JobIds |-> {}]
    /\ claims = [j \in JobIds |-> 0]

\* The steps invocation p takes when nothing fails.
LiveStep(p) ==
    \/ SPCleanupOldRead(p)
    \/ SPCleanupOldCommit(p)
    \/ SPStuckRead(p)
    \/ SPStuckCommit(p)
    \/ SPFindPending(p)
    \/ SPTriggerSend(p)
    \/ SPAwaitOk(p)
    \/ SPMarkFailed(p)
    \/ ClaimGet(p)
    \/ ClaimTxn(p)
    \/ WAfterClaim(p)
    \/ WGemini(p)
    \/ WSave(p)
    \/ WNextChain(p)
    \/ WNextEmpty(p)
    \/ WExit(p)

NextLive ==
    \/ \E p \in ProcIds : SPCleanupOldRead(p)
    \/ \E p \in ProcIds : SPCleanupOldCommit(p)
    \/ \E p \in ProcIds : SPStuckRead(p)
    \/ \E p \in ProcIds : SPStuckCommit(p)
    \/ \E p \in ProcIds : SPFindPending(p)
    \/ \E p \in ProcIds : SPTriggerSend(p)
    \/ \E p \in ProcIds : SPAwaitOk(p)
    \/ \E p \in ProcIds : SPAwaitFail(p)
    \/ \E p \in ProcIds : SPMarkFailed(p)
    \/ \E p \in ProcIds : ClaimGet(p)
    \/ \E p \in ProcIds : ClaimTxn(p)
    \/ \E p \in ProcIds : WAfterClaim(p)
    \/ \E p \in ProcIds : WGemini(p)
    \/ \E p \in ProcIds : WSave(p)
    \/ \E p \in ProcIds : WNextChain(p)
    \/ \E p \in ProcIds : WNextEmpty(p)
    \/ \E p \in ProcIds : WExit(p)

\* Every request that is sent is delivered (the abort of a trigger after
\* five seconds does not stop the worker it reached), and every invocation
\* that can take a step takes one.
SpecLive ==
    InitLive /\ [][NextLive]_vars /\ \A p \in LiveProcs : WF_vars(LiveStep(p))

----------------------------------------------------------------------------
(* One request to the batch processor, with the batches it chains *)

InitBatch ==
    /\ store \in [1..MaxJobs -> UNION {FreshDocs(c) : c \in 1..MaxJobs}]
    /\ \A j \in JobIds : Exists(store[j]) => store[j].createdAt = j
    /\ store0 = store
    /\ now = Now0
    /\ \E n \in {1, BATCH_SIZE} :
          procs = [p \in 1..2 |-> IF p = 1 THEN Batch("u1", n) ELSE IdleProc]
    /\ extracted = [j \in JobIds |-> {}]
    /\ claims = [j \in JobIds |-> 0]

SpecBatch == InitBatch /\ [][NextDrain]_vars

----------------------------------------------------------------------------
(* extractWithFallback(text, selectedFields, jobId): process-single.js      *)
(* 220-286 and part_003 327-415 (the simple extractor), part_006 304-441    *)
(* (the optimised extractor).  A text is given by what the extractor's      *)
(* patterns find in it: the name, the number before "anos", the e-mail      *)
(* address and the number of telephone matches.                             *)

MaxPhones == 4

SelectableFields == {"idade", "email", "contatos"}

Texts ==
    [nome : {"", "Maria Silva"}, anos : {None, 15, 37},
     email : {"", "Maria@Mail.com"}, fones : {0, 1, MaxPhones}]

\* String.prototype.toLowerCase on the addresses of Texts.
toLowerCase(s) == IF s = "Maria@Mail.com" THEN "maria@mail.com" ELSE s

\* The first three formatted numbers: phoneMatches.map(...).slice(0, 3).
Contatos(n) == [i \in 1..(IF n < 3 THEN n ELSE 3) |-> "(00) 0000-0000"]

Nome(text) == IF text.nome # "" THEN text.nome ELSE "Nome não encontrado"

\* idade is the matched number when it lies in 16..80, and 0 otherwise.
Idade(text) ==
    IF text.anos # None /\ text.anos >= 16 /\ text.anos <= 80 THEN text.anos ELSE 0

\* The simple extractor: result.email and result.contatos are assigned only
\* inside `if (emailMatch)` and `if (contatos.length > 0)`.
extractWithFallback(text, selectedFields) ==
    LET keys == {"nome"}
                \cup (IF "idade" \in selectedFields THEN {"idade"} ELSE {})
                \cup (IF "email" \in selectedFields /\ text.email # ""
                      THEN {"email"} ELSE {})
                \cup (IF "contatos" \in selectedFields /\ text.fones > 0
                      THEN {"contatos"} ELSE {})
    IN [success |-> TRUE,
        data |-> [k \in keys |->
                     CASE k = "nome" -> Nome(text)
                       [] k = "idade" -> Idade(text)
                       [] k = "email" -> toLowerCase(text.email)
                       [] k = "contatos" -> Contatos(text.fones)]]

\* The optimised extractor: result.idade = 0, result.email = "" and
\* result.contatos = [] are assigned before the patterns are tried.
extractWithFallbackOptimized(text, selectedFields) ==
    LET keys == {"nome"} \cup selectedFields
    IN [success |-> TRUE,
        data |-> [k \in keys |->
                     CASE k = "nome" -> Nome(text)
                       [] k = "idade" -> Idade(text)
                       [] k = "email" -> toLowerCase(text.email)
                       [] k = "contatos" -> Contatos(text.fones)]]

\* One call of an extractor on a text and a selection of fields.
FallbackCall(rev, text, selectedFields) ==
    [kind |-> "fallback", pc |-> "call", rev |-> rev, text |-> text,
     selectedFields |-> selectedFields, result |-> [success |-> FALSE]]

InitFallback ==
    /\ store = <<>>
    /\ store0 = store
    /\ now = Now0
    /\ \E rev \in {"simple", "optimized"}, text \in Texts,
          selectedFields \in SUBSET SelectableFields :
          procs = <<FallbackCall(rev, text, selectedFields)>>
    /\ extracted = <<>>
    /\ claims = <<>>

FallbackSimple(p) ==
    /\ procs[p].kind = "fallback"
    /\ procs[p].pc = "call"
    /\ procs[p].rev = "simple"
    /\ procs' = [procs EXCEPT
           ![p].result = extractWithFallback(procs[p].text, procs[p].selectedFields),
           ![p].pc = "done"]
    /\ UNCHANGED <<store, now, extracted, claims, store0>>

FallbackOptimized(p) ==
    /\ procs[p].kind = "fallback"
    /\ procs[p].pc = "call"
    /\ procs[p].rev = "optimized"
    /\ procs' = [procs EXCEPT
           ![p].result = extractWithFallbackOptimized(procs[p].text,
                                                      procs[p].selectedFields),
           ![p].pc = "done"]
    /\ UNCHANGED <<store, now, extracted, claims, store0>>

NextFallback ==
    \/ \E p \in ProcIds : FallbackSimple(p)
    \/ \E p \in ProcIds : FallbackOptimized(p)

SpecFallback == InitFallback /\ [][NextFallback]_vars

----------------------------------------------------------------------------
(* GET /api/queue-status: queue-status.js 20-98.  The answer is computed    *)
(* from the snapshot of where('userId', '==', userId).limit(500).get().     *)

\* .limit(500)
STATUS_QUERY_LIMIT == 500

\* The number of jobs by which a queue may exceed the query limit.
MaxOver == 2

\* The sum of the counts of a vector of per-status counts.
Total(c) == c["pending"] + c["processing"] + c["completed"] + c["failed"]

\* Math.round((finished / total) * 100)
Progress(finished, total) == (200 * finished + total) \div (2 * total)

\* The body of the answer for a snapshot with the per-status counts snap:
\* the early answer for an empty snapshot, else the counts, progress,
\* isComplete and needsProcessing.
QueueStatusBody(snap) ==
    IF Total(snap) = 0
    THEN [total |-> 0, pending |-> 0, processing |-> 0, completed |-> 0,
          failed |-> 0, progress |-> 100]
    ELSE LET progress == Progress(snap["completed"] + snap["failed"], Total(snap))
         IN [total |-> Total(snap), pending |-> snap["pending"],
             processing |-> snap["processing"], completed |-> snap["completed"],
             failed |-> snap["failed"], progress |-> progress,
             isComplete |-> progress >= 100,
             needsProcessing |-> snap["pending"] > 0 /\ snap["processing"] = 0]

\* The per-status counts of the snapshots that limit(500) may return for an
\* owner whose jobs have the counts c: all the jobs, or any 500 of them.
Snapshots(c) ==
    LET over == IF Total(c) > STATUS_QUERY_LIMIT
                THEN Total(c) - STATUS_QUERY_LIMIT ELSE 0
        Omitted == {o \in [Statuses -> 0..over] :
                       /\ \A s \in Statuses : o[s] <= c[s]
                       /\ Total(o) = over}
    IN {[s \in Statuses |-> c[s] - o[s]] : o \in Omitted}

\* The per-status counts of an owner's queue: small queues, and queues that
\* exceed the query limit by at most MaxOver jobs.
StatusCounts ==
    {c \in [Statuses -> {0, 1, 2, STATUS_QUERY_LIMIT}] :
        Total(c) <= STATUS_QUERY_LIMIT + MaxOver}

StatsCall(u) ==
    [kind |-> "stats", pc |-> "call", userId |-> u, body |-> [total |-> None]]

\* The store holds the per-status counts of the owner's jobs.
InitStats ==
    /\ store \in StatusCounts
    /\ store0 = store
    /\ now = Now0
    /\ procs = <<StatsCall("u1")>>
    /\ extracted = <<>>
    /\ claims = <<>>

\* The query and the computation of the answer from its snapshot.
StatsAnswer(p) ==
    /\ procs[p].kind = "stats"
    /\ procs[p].pc = "call"
    /\ \E snap \in Snapshots(store) :
          procs' = [procs EXCEPT ![p].body = QueueStatusBody(snap),
                                 ![p].pc = "done"]
    /\ UNCHANGED <<store, now, extracted, claims, store0>>

NextStats == \E p \in ProcIds : StatsAnswer(p)

SpecStats == InitStats /\ [][NextStats]_vars

----------------------------------------------------------------------------
(* GET /api/queue-status on a queue of job documents: queue-status.js       *)
(* 20-98, with the batch processor that its timer posts to.                 *)

StatusJobs == 6

\* batchSize: 5 in the body that the timer posts
STATUS_BATCH_SIZE == 5

StatusCall(u) ==
    [kind |-> "status", pc |-> "qsRead", userId |-> u, resp |-> 0,
     body |-> [total |-> None]]

\* snapshot.docs.forEach: the number of documents of S with each status.
CountStatus(st, S) == [s \in Statuses |-> Cardinality({j \in S : st[j].status = s})]

\* The query, the counts, the timer set when jobs are pending and none is
\* processing, and the answer.
QSRead(p) ==
    /\ procs[p].kind = "status"
    /\ procs[p].pc = "qsRead"
    /\ \E S \in Limit({j \in JobIds : store[j].userId = procs[p].userId},
                      STATUS_QUERY_LIMIT) :
          LET stats == CountStatus(store, S)
          IN procs' = [procs EXCEPT
                 ![p].body = QueueStatusBody(stats),
                 ![p].resp = 200,
                 ![p].pc = IF stats["pending"] > 0 /\ stats["processing"] = 0
                           THEN "qsTimer" ELSE "done"]
    /\ UNCHANGED <<store, now, extracted, claims, store0>>

\* The timer runs: POST /api/process-batch {userId, batchSize: 5}.
QSTimerSend(p) ==
    /\ procs[p].kind = "status"
    /\ procs[p].pc = "qsTimer"
    /\ \E w \in ProcIds :
          /\ FreeSlot(w)
          /\ \A v \in ProcIds : FreeSlot(v) => w <= v
          /\ procs' = [procs EXCEPT ![w] = Batch(procs[p].userId, STATUS_BATCH_SIZE),
                                    ![p].pc = "done"]
    /\ UNCHANGED <<store, now, extracted, claims, store0>>

\* The fetch rejects (logged), or the function is frozen after its answer
\* and the timer never runs.
QSTimerLost(p) ==
    /\ procs[p].kind = "status"
    /\ procs[p].pc = "qsTimer"
    /\ Goto(p, "done")
    /\ UNCHANGED <<store, now, extracted, claims, store0>>

\* The documents of an owner's queue when the status is asked: pending,
\* processing for more than ten minutes, completed.
StatusDocs(c) ==
    {NewJob("u1", "cv", c), Stuck("u1", c, 2 * TickMs),
     [NewJob("u1", "cv", c) EXCEPT !.status = "completed", !.startedAt = Now0,
                                   !.finishedAt = Now0, !.result = "gemini"]}

InitStatus ==
    /\ store \in [1..StatusJobs -> UNION {StatusDocs(c) \cup {NoJob} : c \in 1..StatusJobs}]
    /\ \A j \in JobIds : Exists(store[j]) => store[j].createdAt = j
    /\ \A j \in JobIds : ~Exists(store[j]) => j = StatusJobs
    /\ \A j \in JobIds : j = StatusJobs => store[j].status \in {"absent", "pending"}
    /\ store0 = store
    /\ now = Now0
    /\ procs = <<StatusCall("u1"), IdleProc, IdleProc>>
    /\ extracted = [j \in JobIds |-> {}]
    /\ claims = [j \in JobIds |-> 0]

NextStatus ==
    \/ \E p \in ProcIds : QSRead(p)
    \/ \E p \in ProcIds : QSTimerSend(p)
    \/ \E p \in ProcIds : QSTimerLost(p)
    \/ \E p \in ProcIds : PBFind(p)
    \/ \E p \in ProcIds, j \in JobIds : PBMark(p, j)
    \/ \E p \in ProcIds, j \in JobIds : PBGemini(p, j)
    \/ \E p \in ProcIds, j \in JobIds : PBSave(p, j)
    \/ \E p \in ProcIds : PBCheckMore(p)
    \/ \E p \in ProcIds : PBChainSend(p)
    \/ \E p \in ProcIds : PBChainLost(p)

SpecStatus == InitStatus /\ [][NextStatus]_vars

----------------------------------------------------------------------------
(* POST /api/cleanup-jobs {userId, olderThanHours}: part_005 15-76, next to *)
(* background workers that process the owner's jobs.                        *)

\* 60 * 60 * 1000
ONE_HOUR == 60 * 60 * 1000

CleanupApi(u, olderThanHours) ==
    [IdleProc EXCEPT !.kind = "cleanupApi", !.pc = "caRead", !.userId = u,
                     !.i = olderThanHours]

\* The query where('finishedAt', '<=', cutoffTime) and the forEach that
\* schedules the delete of the completed and failed documents it read.
CARead(p) ==
    /\ procs[p].kind = "cleanupApi"
    /\ procs[p].pc = "caRead"
    /\ LET cutoffTime == now - procs[p].i * ONE_HOUR
           old == {j \in JobIds : /\ store[j].userId = procs[p].userId
                                  /\ store[j].finishedAt # None
                                  /\ store[j].finishedAt <= cutoffTime}
           del == {j \in old : IsTerminal(store[j])}
       IN procs' = [procs EXCEPT
              ![p].tnow = cutoffTime,
              ![p].plan = [j \in JobIds |-> IF j \in del THEN "delete" ELSE "none"],
              ![p].nOk = Cardinality(del),
              ![p].resp = IF del = {} THEN 200 ELSE 0,
              ![p].pc = IF del = {} THEN "done" ELSE "caCommit"]
    /\ UNCHANGED <<store, now, extracted, claims, store0>>

\* batch.commit() of the scheduled deletes, and the answer.
CACommit(p) ==
    /\ procs[p].kind = "cleanupApi"
    /\ procs[p].pc = "caCommit"
    /\ store' = [j \in JobIds |->
                    IF procs[p].plan[j] = "delete" THEN NoJob ELSE store[j]]
    /\ procs' = [procs EXCEPT ![p].resp = 200, ![p].pc = "done"]
    /\ UNCHANGED <<now, extracted, claims, store0>>

\* A queue of pending jobs and of jobs completed an hour before; one cleanup
\* request, two requests to the background worker for job 1, one free slot.
InitRetention ==
    /\ store \in [1..MaxJobs ->
                    {NewJob("u1", "cv", c) : c \in 1..MaxJobs}
                    \cup {[NewJob("u1", "cv", c) EXCEPT
                              !.status = "completed", !.startedAt = Now0 - ONE_HOUR,
                              !.finishedAt = Now0 - ONE_HOUR, !.result = "gemini"] :
                            c \in 1..MaxJobs}]
    /\ \A j \in JobIds : store[j].createdAt = j
    /\ store0 = store
    /\ now = Now0
    /\ \E olderThanHours \in {0, 1} :
          procs = <<CleanupApi("u1", olderThanHours), BgWorker(1, "u1"),
                    BgWorker(1, "u1"), IdleProc>>
    /\ extracted = [j \in JobIds |-> {}]
    /\ claims = [j \in JobIds |-> 0]

NextRetention ==
    \/ Tick
    \/ \E p \in ProcIds : CARead(p)
    \/ \E p \in ProcIds : CACommit(p)
    \/ \E p \in ProcIds : BGGet(p)
    \/ \E p \in ProcIds : BGClaim(p)
    \/ \E p \in ProcIds : BGGemini(p)
    \/ \E p \in ProcIds : BGDie(p)
    \/ \E p \in ProcIds : BGSave(p)
    \/ \E p \in ProcIds : BGSaveThrow(p)
    \/ \E p \in ProcIds : BGCatch(p)
    \/ \E p \in ProcIds : BGNextSend(p)
    \/ \E p \in ProcIds : BGNextNone(p)

SpecRetention == InitRetention /\ [][NextRetention]_vars

----------------------------------------------------------------------------
(* The reclaimer run twice for one owner, with nothing else running:        *)
(* cleanupStuckJobs of start-processing.js 129-186, and the reset of        *)
(* part_000 209-243.                                                        *)

\* Processing jobs started now or one tick ago, fresh or out of retries,
\* next to a pending job and to a processing job of another owner.
ReclaimDocs(c) ==
    {[Stuck(u, c, t) EXCEPT !.retryCount = r] :
        u \in Users, t \in {0, TickMs}, r \in {0, MAX_RETRIES}}
    \cup {NewJob("u1", "cv", c)}

\* Two calls of the same reclaimer, each about to run its query.
InitReclaim ==
    /\ store \in [1..MaxJobs -> UNION {ReclaimDocs(c) : c \in 1..MaxJobs}]
    /\ \A j \in JobIds : store[j].createdAt = j
    /\ store0 = store
    /\ now = Now0
    /\ \E q \in {[Starter("u1") EXCEPT !.pc = "stuckRead"], SelfStarter("u1")} :
          procs = <<q, q>>
    /\ extracted = [j \in JobIds |-> {}]
    /\ claims = [j \in JobIds |-> 0]

NextReclaim ==
    \/ Tick
    \/ \E p \in ProcIds : SPStuckRead(p)
    \/ \E p \in ProcIds : SPStuckCommit(p)
    \/ \E p \in ProcIds : SCStuckRead(p)
    \/ \E p \in ProcIds : SCStuckCommit(p)

SpecReclaim == InitReclaim /\ [][NextReclaim]_vars

----------------------------------------------------------------------------
(* One request POST /api/process-job {jobId, userId: 'u1'} for any job id,  *)
(* with the workers it chains: process-job.js 17-98.                        *)

InitJobRequest ==
    /\ store \in [1..MaxJobs -> UNION {FreshDocs(c) : c \in 1..MaxJobs}]
    /\ \A j \in JobIds : Exists(store[j]) => store[j].createdAt = j
    /\ store0 = store
    /\ now = Now0
    /\ \E j \in 1..MaxJobs : procs = <<BgWorker(j, "u1"), IdleProc>>
    /\ extracted = [j \in JobIds |-> {}]
    /\ claims = [j \in JobIds |-> 0]

NextJobRequest ==
    \/ \E p \in ProcIds : BGGet(p)
    \/ \E p \in ProcIds : BGClaim(p)
    \/ \E p \in ProcIds : BGGemini(p)
    \/ \E p \in ProcIds : BGDie(p)
    \/ \E p \in ProcIds : BGSave(p)
    \/ \E p \in ProcIds : BGSaveThrow(p)
    \/ \E p \in ProcIds : BGCatch(p)
    \/ \E p \in ProcIds : BGNextSend(p)
    \/ \E p \in ProcIds : BGNextNone(p)

SpecJobRequest == InitJobRequest /\ [][NextJobRequest]_vars

----------------------------------------------------------------------------
(* POST /api/process-queue, the single worker of part_000 95-136: one job   *)
(* per call, and none while any job is processing.                          *)

QueueWorker == [IdleProc EXCEPT !.kind = "queueWorker", !.pc = "qwBusy"]

\* where('status', '==', 'processing').limit(1): busy answers 200.
QWBusy(p) ==
    /\ procs[p].kind = "queueWorker"
    /\ procs[p].pc = "qwBusy"
    /\ procs' = IF \E j \in JobIds : store[j].status = "processing"
                THEN [procs EXCEPT ![p].pc = "done", ![p].resp = 200]
                ELSE [procs EXCEPT ![p].pc = "qwFind"]
    /\ UNCHANGED <<store, now, extracted, claims, store0>>

\* The oldest pending job of the whole queue; an empty queue answers 200.
QWFind(p) ==
    /\ procs[p].kind = "queueWorker"
    /\ procs[p].pc = "qwFind"
    /\ LET S == OrderByCreatedAtLimit(store, {j \in JobIds : store[j].status = "pending"}, 1)
       IN IF S = {}
          THEN procs' = [procs EXCEPT ![p].pc = "done", ![p].resp = 200]
          ELSE \E j \in S :
                  procs' = [procs EXCEPT ![p].jobId = j, ![p].snap = store[j],
                                         ![p].userId = store[j].userId,
                                         ![p].pc = "qwMark"]
    /\ UNCHANGED <<store, now, extracted, claims, store0>>

\* jobDoc.ref.update({status: 'processing', startedAt}).
QWMark(p) ==
    /\ procs[p].kind = "queueWorker"
    /\ procs[p].pc = "qwMark"
    /\ LET j == procs[p].jobId
       IN /\ Exists(store[j])
          /\ WriteDoc(j, [store[j] EXCEPT !.status = "processing", !.startedAt = now])
          /\ claims' = [claims EXCEPT ![j] = @ + 1]
    /\ Goto(p, "qwGemini")
    /\ UNCHANGED <<now, extracted, store0>>

\* callGeminiAPI: success with data, or {success: false}.
QWGemini(p) ==
    /\ procs[p].kind = "queueWorker"
    /\ procs[p].pc = "qwGemini"
    /\ \E ok \in BOOLEAN :
          procs' = [procs EXCEPT ![p].ok = ok,
                                 ![p].data = IF ok THEN "gemini" ELSE "upstream",
                                 ![p].pc = "qwSave"]
    /\ extracted' = [extracted EXCEPT ![procs[p].jobId] = @ \cup {p}]
    /\ UNCHANGED <<store, now, claims, store0>>

\* The update to completed or failed, and the answer 200.
QWSave(p) ==
    /\ procs[p].kind = "queueWorker"
    /\ procs[p].pc = "qwSave"
    /\ LET j == procs[p].jobId
       IN /\ Exists(store[j])
          /\ WriteDoc(j, Saved(store[j], procs[p].ok, procs[p].data, now))
    /\ procs' = [procs EXCEPT ![p].pc = "done", ![p].resp = 200]
    /\ UNCHANGED <<now, extracted, claims, store0>>

\* A call to the store rejects (UNAVAILABLE, or an update of a document
\* that no longer exists): control passes to the catch block.
QWThrow(p) ==
    /\ procs[p].kind = "queueWorker"
    /\ procs[p].pc \in {"qwBusy", "qwFind", "qwMark", "qwSave"}
    /\ procs' = [procs EXCEPT ![p].pc = "qwCatch", ![p].res = "thrown"]
    /\ UNCHANGED <<store, now, extracted, claims, store0>>

\* catch (error): `if (jobId)` reads a const declared inside the try block,
\* which is not in scope here; the ReferenceError leaves the handler before
\* the update and before response.status(500).
QWCatch(p) ==
    /\ procs[p].kind = "queueWorker"
    /\ procs[p].pc = "qwCatch"
    /\ procs' = [procs EXCEPT ![p].pc = "escaped", ![p].res = "ReferenceError"]
    /\ UNCHANGED <<store, now, extracted, claims, store0>>

InitQueueWorker ==
    /\ store \in [1..MaxJobs -> UNION {SweepDocs(c) : c \in 1..MaxJobs}]
    /\ \A j \in JobIds : Exists(store[j]) => store[j].createdAt = j
    /\ store0 = store
    /\ now = Now0
    /\ procs = <<QueueWorker>>
    /\ extracted = [j \in JobIds |-> {}]
    /\ claims = [j \in JobIds |-> 0]

NextQueueWorker ==
    \/ \E p \in ProcIds : QWBusy(p)
    \/ \E p \in ProcIds : QWFind(p)
    \/ \E p \in ProcIds : QWMark(p)
    \/ \E p \in ProcIds : QWGemini(p)
    \/ \E p \in ProcIds : QWSave(p)
    \/ \E p \in ProcIds : QWThrow(p)
    \/ \E p \in ProcIds : QWCatch(p)

SpecQueueWorker == InitQueueWorker /\ [][NextQueueWorker]_vars

----------------------------------------------------------------------------
(* POST /api/start-processing, batch revision (part_002 331-436), with the  *)
(* batch processor that its timer posts to.                                 *)

\* batchSize: 5 in the body that the timer posts
BASIC_BATCH_SIZE == 5

BasicJobs == 6

\* The timer set before the 202 runs: POST /api/process-batch.
BCTimerSend(p) ==
    /\ procs[p].kind = "basicStart"
    /\ procs[p].pc = "done"
    /\ procs[p].resp = 202
    /\ procs[p].w = 0
    /\ \E w \in ProcIds :
          /\ FreeSlot(w)
          /\ \A v \in ProcIds : FreeSlot(v) => w <= v
          /\ procs' = [procs EXCEPT ![w] = Batch(procs[p].userId, BASIC_BATCH_SIZE),
                                    ![p].w = w]
    /\ UNCHANGED <<store, now, extracted, claims, store0>>

\* The fetch rejects (logged), or the function is frozen after its answer.
BCTimerLost(p) ==
    /\ procs[p].kind = "basicStart"
    /\ procs[p].pc = "done"
    /\ procs[p].resp = 202
    /\ procs[p].w = 0
    /\ procs' = [procs EXCEPT ![p].w = p]
    /\ UNCHANGED <<store, now, extracted, claims, store0>>

\* Job 1 the oldest: stuck, just claimed, or pending; the jobs after it
\* pending; the last one pending, completed or absent.
InitBasic ==
    /\ \E first \in {Stuck("u1", 1, 2 * TickMs), Stuck("u1", 1, 0), NewJob("u1", "cv", 1)},
          last \in {NewJob("u1", "cv", BasicJobs), NoJob,
                    [NewJob("u1", "cv", BasicJobs) EXCEPT
                        !.status = "completed", !.startedAt = Now0,
                        !.finishedAt = Now0, !.result = "gemini"]} :
          store = [j \in 1..BasicJobs |->
                      IF j = 1 THEN first
                      ELSE IF j = BasicJobs THEN last
                      ELSE NewJob("u1", "cv", j)]
    /\ store0 = store
    /\ now = Now0
    /\ procs = <<BasicStarter("u1"), IdleProc, IdleProc>>
    /\ extracted = [j \in JobIds |-> {}]
    /\ claims = [j \in JobIds |-> 0]

NextBasic ==
    \/ \E p \in ProcIds : BCRead(p)
    \/ \E p \in ProcIds : BCCommit(p)
    \/ \E p \in ProcIds : BCCheckPending(p)
    \/ \E p \in ProcIds : BCTimerSend(p)
    \/ \E p \in ProcIds : BCTimerLost(p)
    \/ \E p \in ProcIds : PBFind(p)
    \/ \E p \in ProcIds, j \in JobIds : PBMark(p, j)
    \/ \E p \in ProcIds, j \in JobIds : PBGemini(p, j)
    \/ \E p \in ProcIds, j \in JobIds : PBSave(p, j)
    \/ \E p \in ProcIds : PBCheckMore(p)
    \/ \E p \in ProcIds : PBChainSend(p)
    \/ \E p \in ProcIds : PBChainLost(p)

SpecBasic == InitBasic /\ [][NextBasic]_vars

----------------------------------------------------------------------------
(* The answer of start-processing: ETAPA 3 and 4 of start-processing.js *)

\* The number of documents the queue holds when the trigger arrives.
TriggerJobs == 3

\* What a document of the queue can be when findPendingJobs runs.
TriggerDocs(c) ==
    {NewJob("u1", "cv", c), NewJob("u2", "cv", c),
     [NewJob("u1", "cv", c) EXCEPT !.status = "completed", !.startedAt = Now0,
                                   !.finishedAt = Now0, !.result = "gemini"]}

\* The handler has finished both cleanups and is about to call
\* findPendingJobs; one slot serves the process-job requests, which
\* triggerMultipleJobs sends one after the other.
InitTrigger ==
    /\ store \in [1..TriggerJobs -> UNION {TriggerDocs(c) : c \in 1..TriggerJobs}]
    /\ \A j \in JobIds : store[j].createdAt = j
    /\ store0 = store
    /\ now = Now0
    /\ procs = <<[Starter("u1") EXCEPT !.pc = "findPending"], IdleProc>>
    /\ extracted = [j \in JobIds |-> {}]
    /\ claims = [j \in JobIds |-> 0]

NextTrigger ==
    \/ \E p \in ProcIds : SPFindPending(p)
    \/ \E p \in ProcIds : SPTriggerSend(p)
    \/ \E p \in ProcIds : SPTriggerLost(p)
    \/ \E p \in ProcIds : SPAwaitOk(p)
    \/ \E p \in ProcIds : SPAwaitFail(p)
    \/ \E p \in ProcIds : SPMarkFailed(p)
    \/ \E p \in ProcIds : ClaimGet(p)
    \/ \E p \in ProcIds : ClaimTxn(p)
    \/ \E p \in ProcIds : WAfterClaim(p)
    \/ \E p \in ProcIds : WGemini(p)
    \/ \E p \in ProcIds : WSave(p)
    \/ \E p \in ProcIds : WNextChain(p)
    \/ \E p \in ProcIds : WNextNone(p)
    \/ \E p \in ProcIds : WExit(p)

SpecTrigger == InitTrigger /\ [][NextTrigger]_vars

----------------------------------------------------------------------------
(* The retention sweeps on a long queue: cleanup-jobs.js 24-116 and         *)
(* part_005 21-74, each run alone.                                          *)

\* What the oldest document of a long queue can be; the other documents are
\* jobs of u1 completed a day before.
CeilingDocs(c) ==
    {NewJob("u1", "cv", c), Stuck("u1", c, 2 * TickMs),
     [NewJob("u2", "cv", c) EXCEPT !.status = "completed", !.startedAt = Now0 - ONE_DAY,
                                   !.finishedAt = Now0 - ONE_DAY, !.result = "gemini"],
     [NewJob("u1", "cv", c) EXCEPT !.status = "failed", !.startedAt = Now0 - ONE_DAY,
                                   !.finishedAt = Now0 - ONE_DAY, !.error = "timeout"]}

\* A queue of up to BATCH_OPERATIONS + MaxOver documents, and one request to
\* the cron or to the cleanup endpoint (olderThanHours 1 or 24).
InitCeiling ==
    /\ \E n \in 1..(BATCH_OPERATIONS + MaxOver) : \E doc \in CeilingDocs(1) :
          store = [j \in 1..n |->
                     IF j = 1 THEN doc
                     ELSE [NewJob("u1", "cv", j) EXCEPT
                              !.status = "completed", !.startedAt = Now0 - ONE_DAY,
                              !.finishedAt = Now0 - ONE_DAY, !.result = "gemini"]]
    /\ store0 = store
    /\ now = Now0
    /\ \E q \in {CleanupCron, CleanupApi("u1", 1), CleanupApi("u1", 24)} :
          procs = <<q>>
    /\ extracted = [j \in JobIds |-> {}]
    /\ claims = [j \in JobIds |-> 0]

NextCeiling ==
    \/ \E p \in ProcIds : CCOldRead(p)
    \/ \E p \in ProcIds : CCDelete(p)
    \/ \E p \in ProcIds : CCStuckRead(p)
    \/ \E p \in ProcIds : CCStuckCommit(p)
    \/ \E p \in ProcIds : CARead(p)
    \/ \E p \in ProcIds : CACommit(p)

SpecCeiling == InitCeiling /\ [][NextCeiling]_vars

----------------------------------------------------------------------------
(* Concurrent requests to the single worker: part_000 90-136 *)

\* A queue with no job in processing: pending and completed jobs of either
\* owner.
RaceDocs(c) ==
    {NoJob}
    \cup {NewJob(u, "cv", c) : u \in Users}
    \cup {[NewJob("u1", "cv", c) EXCEPT !.status = "completed", !.startedAt = Now0,
                                        !.finishedAt = Now0, !.result = "gemini"]}

\* Two requests arrive together.
InitQueueRace ==
    /\ store \in [1..MaxJobs -> UNION {RaceDocs(c) : c \in 1..MaxJobs}]
    /\ \A j \in JobIds : Exists(store[j]) => store[j].createdAt = j
    /\ store0 = store
    /\ now = Now0
    /\ procs = <<QueueWorker, QueueWorker>>
    /\ extracted = [j \in JobIds |-> {}]
    /\ claims = [j \in JobIds |-> 0]

NextQueueRace ==
    \/ \E p \in ProcIds : QWBusy(p)
    \/ \E p \in ProcIds : QWFind(p)
    \/ \E p \in ProcIds : QWMark(p)
    \/ \E p \in ProcIds : QWGemini(p)
    \/ \E p \in ProcIds : QWSave(p)
    \/ \E p \in ProcIds : QWThrow(p)
    \/ \E p \in ProcIds : QWCatch(p)

SpecQueueRace == InitQueueRace /\ [][NextQueueRace]_vars

----------------------------------------------------------------------------
(* The Gemini proxy: handler of proxy.js 8-75 *)

\* const maxRetries = 7
maxRetries == 7

\* let delay = 2000
BASE_DELAY == 2000

\* Math.random() * 1000, at its ends
Jitter == {0, 999}

\* The statuses of upstream answers that are neither OK nor 429.
ErrorStatus == {400, 403, 500, 503}

\* A request with the text of request.body; `i` is attempt, `w` is delay,
\* `nOk` counts the calls of fetch and `tnow` the time slept.
ProxyCall(text) ==
    [IdleProc EXCEPT !.kind = "proxy", !.pc = "gpStart", !.data = text, !.i = 1,
                     !.w = BASE_DELAY]

\* An upstream answer: status, text of the first candidate, kind of body.
Upstream(status, content, body) == [status |-> status, content |-> content, body |-> body]

\* if (!text || !selectedFields) answers 400.
GPStart(p) ==
    /\ procs[p].kind = "proxy"
    /\ procs[p].pc = "gpStart"
    /\ procs' = IF procs[p].data = ""
                THEN [procs EXCEPT ![p].pc = "done", ![p].resp = 400]
                ELSE [procs EXCEPT ![p].pc = "gpFetch"]
    /\ UNCHANGED <<store, now, extracted, claims, store0>>

\* geminiResponse.ok with a candidate text: 200 with JSON.parse(candidateText),
\* which throws on a text that is not JSON; the catch answers 500.
GPContent(p) ==
    /\ procs[p].kind = "proxy"
    /\ procs[p].pc = "gpFetch"
    /\ procs[p].i <= maxRetries
    /\ \E content \in {"json", "text"} :
          procs' = [procs EXCEPT ![p].snap = Upstream(200, content, "json"),
                                 ![p].nOk = @ + 1,
                                 ![p].pc = "done",
                                 ![p].resp = IF content = "json" THEN 200 ELSE 500]
    /\ UNCHANGED <<store, now, extracted, claims, store0>>

\* geminiResponse.ok without candidate text: sleep(delay) and continue.
GPEmpty(p) ==
    /\ procs[p].kind = "proxy"
    /\ procs[p].pc = "gpFetch"
    /\ procs[p].i <= maxRetries
    /\ procs' = [procs EXCEPT ![p].snap = Upstream(200, "", "json"),
                              ![p].nOk = @ + 1,
                              ![p].res = "empty",
                              ![p].tnow = @ + procs[p].w,
                              ![p].i = @ + 1]
    /\ UNCHANGED <<store, now, extracted, claims, store0>>

\* status 429: sleep(delay + jitter), delay *= 2, continue.
GP429(p) ==
    /\ procs[p].kind = "proxy"
    /\ procs[p].pc = "gpFetch"
    /\ procs[p].i <= maxRetries
    /\ \E jitter \in Jitter :
          procs' = [procs EXCEPT ![p].snap = Upstream(429, "", "json"),
                                 ![p].nOk = @ + 1,
                                 ![p].res = "429",
                                 ![p].tnow = @ + procs[p].w + jitter,
                                 ![p].w = @ * 2,
                                 ![p].i = @ + 1]
    /\ UNCHANGED <<store, now, extracted, claims, store0>>

\* Any other status: the answer carries the upstream status; when the body
\* is not JSON, geminiResponse.json() throws and the catch answers 500.
GPStatus(p) ==
    /\ procs[p].kind = "proxy"
    /\ procs[p].pc = "gpFetch"
    /\ procs[p].i <= maxRetries
    /\ \E status \in ErrorStatus : \E body \in {"json", "html"} :
          procs' = [procs EXCEPT ![p].snap = Upstream(status, "", body),
                                 ![p].nOk = @ + 1,
                                 ![p].pc = "done",
                                 ![p].resp = IF body = "json" THEN status ELSE 500]
    /\ UNCHANGED <<store, now, extracted, claims, store0>>

\* fetch rejects (no connection): the catch answers 500.
GPReject(p) ==
    /\ procs[p].kind = "proxy"
    /\ procs[p].pc = "gpFetch"
    /\ procs[p].i <= maxRetries
    /\ procs' = [procs EXCEPT ![p].snap = Upstream(0, "", "none"),
                              ![p].nOk = @ + 1,
                              ![p].pc = "done",
                              ![p].resp = 500]
    /\ UNCHANGED <<store, now, extracted, claims, store0>>

\* The loop ends with attempt > maxRetries: 500 with the last error.
GPExhausted(p) ==
    /\ procs[p].kind = "proxy"
    /\ procs[p].pc = "gpFetch"
    /\ procs[p].i > maxRetries
    /\ procs' = [procs EXCEPT ![p].pc = "done", ![p].resp = 500]
    /\ UNCHANGED <<store, now, extracted, claims, store0>>

\* One request, with or without text; the proxy uses no store.
InitProxy ==
    /\ store = <<>>
    /\ store0 = store
    /\ now = Now0
    /\ \E text \in {"", "cv"} : procs = <<ProxyCall(text)>>
    /\ extracted = <<>>
    /\ claims = <<>>

NextProxy ==
    \/ \E p \in ProcIds : GPStart(p)
    \/ \E p \in ProcIds : GPContent(p)
    \/ \E p \in ProcIds : GPEmpty(p)
    \/ \E p \in ProcIds : GP429(p)
    \/ \E p \in ProcIds : GPStatus(p)
    \/ \E p \in ProcIds : GPReject(p)
    \/ \E p \in ProcIds : GPExhausted(p)

SpecProxy == InitProxy /\ [][NextProxy]_vars

----------------------------------------------------------------------------
(* The status answer on queues within the query limit: queue-status.js      *)
(* 48-85.                                                                   *)

\* The per-status counts of an owner whose jobs all fit in the snapshot:
\* small counts and counts near the limit.
ProgressCounts ==
    {c \in [Statuses -> {0, 1, 2, 200, STATUS_QUERY_LIMIT - 2}] :
        Total(c) <= STATUS_QUERY_LIMIT}

InitProgress ==
    /\ store \in ProgressCounts
    /\ store0 = store
    /\ now = Now0
    /\ procs = <<StatsCall("u1")>>
    /\ extracted = <<>>
    /\ claims = <<>>

SpecProgress == InitProgress /\ [][NextStats]_vars

----------------------------------------------------------------------------
(* One sweep of cleanupStuckJobs, run alone: start-processing.js 129-186    *)
(* and the revision of part_001 268-324 with a window of ten minutes.       *)

SequentialStarter(u) ==
    [IdleProc EXCEPT !.kind = "seqStart", !.pc = "tsStuckRead", !.userId = u]

\* startedAt.toMillis() < tenMinutesAgo.toMillis(): failed, else reset.
StuckPlanTen(doc, t) ==
    IF doc.startedAt # None /\ doc.startedAt < t - TEN_MINUTES
    THEN "fail" ELSE "reset"

\* part_001: the query for the user's processing jobs and the forEach that
\* fills the batch and counts resetCount and failedCount.
TSStuckRead(p) ==
    /\ procs[p].kind = "seqStart"
    /\ procs[p].pc = "tsStuckRead"
    /\ LET S == Query(store, procs[p].userId, "processing")
       IN procs' = [procs EXCEPT
              ![p].plan = [j \in JobIds |->
                              IF j \in S THEN StuckPlanTen(store[j], now) ELSE "none"],
              ![p].tnow = now,
              ![p].pc = IF S = {} THEN "tsPending" ELSE "tsStuckCommit"]
    /\ UNCHANGED <<store, now, extracted, claims, store0>>

\* part_001: batch.commit(); a batch with a missing document rejects and
\* the catch block returns zeros.
TSStuckCommit(p) ==
    /\ procs[p].kind = "seqStart"
    /\ procs[p].pc = "tsStuckCommit"
    /\ LET plan == procs[p].plan
       IN IF \A j \in JobIds : plan[j] # "none" => Exists(store[j])
          THEN store' = [j \in JobIds |-> StuckWrite(store[j], plan[j], procs[p].tnow)]
          ELSE UNCHANGED store
    /\ procs' = [procs EXCEPT ![p].pc = "tsPending"]
    /\ UNCHANGED <<now, extracted, claims, store0>>

\* Jobs of either owner: processing since now, five or ten minutes (or with
\* no startedAt), pending, completed.
OnceDocs(c) ==
    {Stuck(u, c, t) : u \in Users, t \in {0, TickMs, 2 * TickMs}}
    \cup {[Stuck("u1", c, 0) EXCEPT !.startedAt = None], NewJob("u1", "cv", c),
          [NewJob("u1", "cv", c) EXCEPT !.status = "completed", !.startedAt = Now0,
                                        !.finishedAt = Now0, !.result = "gemini"]}

\* One request of either revision, about to call cleanupStuckJobs.
InitOnce ==
    /\ store \in [1..MaxJobs -> UNION {OnceDocs(c) : c \in 1..MaxJobs}]
    /\ \A j \in JobIds : store[j].createdAt = j
    /\ store0 = store
    /\ now = Now0
    /\ \E q \in {[Starter("u1") EXCEPT !.pc = "stuckRead"], SequentialStarter("u1")} :
          procs = <<q>>
    /\ extracted = [j \in JobIds |-> {}]
    /\ claims = [j \in JobIds |-> 0]

NextOnce ==
    \/ Tick
    \/ \E p \in ProcIds : SPStuckRead(p)
    \/ \E p \in ProcIds : SPStuckCommit(p)
    \/ \E p \in ProcIds : TSStuckRead(p)
    \/ \E p \in ProcIds : TSStuckCommit(p)

SpecOnce == InitOnce /\ [][NextOnce]_vars

----------------------------------------------------------------------------
(* The looping worker: part_001 20-80, whose catch block guards its own     *)
(* update with a try, and part_002 202-262, whose catch block does not.     *)

LoopKinds == {"loopGuarded", "loopBare"}

\* The handler has answered 202 and enters while (true).
LoopWorker(kind, u) ==
    [IdleProc EXCEPT !.kind = kind, !.pc = "lwFind", !.userId = u, !.resp = 202]

\* The query for the oldest pending job of the user; break when it is empty.
LWFind(p) ==
    /\ procs[p].kind \in LoopKinds
    /\ procs[p].pc = "lwFind"
    /\ LET S == OrderByCreatedAtLimit(store, Query(store, procs[p].userId, "pending"), 1)
       IN IF S = {}
          THEN procs' = [procs EXCEPT ![p].pc = "done"]
          ELSE \E j \in S :
                  procs' = [procs EXCEPT ![p].jobId = j, ![p].snap = store[j],
                                         ![p].res = "none", ![p].pc = "lwMark"]
    /\ UNCHANGED <<store, now, extracted, claims, store0>>

\* update({status: 'processing', startedAt}).
LWMark(p) ==
    /\ procs[p].kind \in LoopKinds
    /\ procs[p].pc = "lwMark"
    /\ LET j == procs[p].jobId
       IN /\ Exists(store[j])
          /\ WriteDoc(j, [store[j] EXCEPT !.status = "processing", !.startedAt = now])
          /\ claims' = [claims EXCEPT ![j] = @ + 1]
    /\ Goto(p, "lwGemini")
    /\ UNCHANGED <<now, extracted, store0>>

\* callGeminiAPI: success with data, or {success: false}.
LWGemini(p) ==
    /\ procs[p].kind \in LoopKinds
    /\ procs[p].pc = "lwGemini"
    /\ \E ok \in BOOLEAN :
          procs' = [procs EXCEPT ![p].ok = ok,
                                 ![p].data = IF ok THEN "gemini" ELSE "upstream",
                                 ![p].pc = "lwSave"]
    /\ extracted' = [extracted EXCEPT ![procs[p].jobId] = @ \cup {p}]
    /\ UNCHANGED <<store, now, claims, store0>>

\* The update to completed or failed, the sleep, and the next round.
LWSave(p) ==
    /\ procs[p].kind \in LoopKinds
    /\ procs[p].pc = "lwSave"
    /\ LET j == procs[p].jobId
       IN /\ Exists(store[j])
          /\ WriteDoc(j, Saved(store[j], procs[p].ok, procs[p].data, now))
    /\ Goto(p, "lwFind")
    /\ UNCHANGED <<now, extracted, claims, store0>>

\* An update inside the try rejects (the store is unavailable, or the
\* document is gone): control passes to the catch block.
LWThrow(p) ==
    /\ procs[p].kind \in LoopKinds
    /\ procs[p].pc \in {"lwMark", "lwSave"}
    /\ procs' = [procs EXCEPT ![p].pc = "lwCatch", ![p].res = "thrown"]
    /\ UNCHANGED <<store, now, extracted, claims, store0>>

\* catch: update({status: 'failed', error}), the sleep, and the next round.
LWCatch(p) ==
    /\ procs[p].kind \in LoopKinds
    /\ procs[p].pc = "lwCatch"
    /\ LET j == procs[p].jobId
       IN /\ Exists(store[j])
          /\ WriteDoc(j, [store[j] EXCEPT !.status = "failed", !.error = "worker"])
    /\ Goto(p, "lwFind")
    /\ UNCHANGED <<now, extracted, claims, store0>>

\* The update of the catch block rejects too: part_001 logs it and goes on
\* to the next round, part_002 lets it leave the handler.
LWCatchThrow(p) ==
    /\ procs[p].kind \in LoopKinds
    /\ procs[p].pc = "lwCatch"
    /\ procs' = [procs EXCEPT
           ![p].pc = IF procs[p].kind = "loopGuarded" THEN "lwFind" ELSE "escaped",
           ![p].res = "rejected"]
    /\ UNCHANGED <<store, now, extracted, claims, store0>>

\* Pending and completed jobs of either owner, nothing processing, and one
\* looping worker.
InitLoop ==
    /\ store \in [1..MaxJobs -> UNION {RaceDocs(c) : c \in 1..MaxJobs}]
    /\ \A j \in JobIds : Exists(store[j]) => store[j].createdAt = j
    /\ store0 = store
    /\ now = Now0
    /\ \E kind \in LoopKinds : procs = <<LoopWorker(kind, "u1")>>
    /\ extracted = [j \in JobIds |-> {}]
    /\ claims = [j \in JobIds |-> 0]

NextLoop ==
    \/ \E p \in ProcIds : LWFind(p)
    \/ \E p \in ProcIds : LWMark(p)
    \/ \E p \in ProcIds : LWGemini(p)
    \/ \E p \in ProcIds : LWSave(p)
    \/ \E p \in ProcIds : LWThrow(p)
    \/ \E p \in ProcIds : LWCatch(p)
    \/ \E p \in ProcIds : LWCatchThrow(p)

SpecLoop == InitLoop /\ [][NextLoop]_vars

----------------------------------------------------------------------------
(* The bounded batch worker: handler of part_002 18-92 *)

\* const MAX_JOBS_PER_RUN = 4
MAX_JOBS_PER_RUN == 4

\* The number of jobs in the queue of the bounded worker.
BoundedJobs == 5

\* `i` is the loop variable, `jobs` the jobs selected so far.
BoundedWorker(u) ==
    [IdleProc EXCEPT !.kind = "bounded", !.pc = "bwResetRead", !.userId = u]

\* The query for the user's processing jobs; the batch resets each of them
\* to pending. With none, the handler answers 202 and enters the loop.
BWResetRead(p) ==
    /\ procs[p].kind = "bounded"
    /\ procs[p].pc = "bwResetRead"
    /\ LET S == Query(store, procs[p].userId, "processing")
       IN procs' = IF S = {}
                   THEN [procs EXCEPT ![p].pc = "bwFind", ![p].resp = 202]
                   ELSE [procs EXCEPT
                            ![p].plan = [j \in JobIds |->
                                            IF j \in S THEN "reset" ELSE "none"],
                            ![p].pc = "bwResetCommit"]
    /\ UNCHANGED <<store, now, extracted, claims, store0>>

\* batch.commit() and the answer 202.
BWResetCommit(p) ==
    /\ procs[p].kind = "bounded"
    /\ procs[p].pc = "bwResetCommit"
    /\ \A j \in JobIds : procs[p].plan[j] = "reset" => Exists(store[j])
    /\ store' = [j \in JobIds |->
                    IF procs[p].plan[j] = "reset"
                    THEN [store[j] EXCEPT !.status = "pending"] ELSE store[j]]
    /\ procs' = [procs EXCEPT ![p].pc = "bwFind", ![p].resp = 202]
    /\ UNCHANGED <<now, extracted, claims, store0>>

\* A loop with no bound on i.
BWFindUnbounded(p) ==
    /\ procs[p].kind = "bounded"
    /\ procs[p].pc = "bwFind"
    /\ LET S == OrderByCreatedAtLimit(store, Query(store, procs[p].userId, "pending"), 1)
       IN IF S = {}
          THEN procs' = [procs EXCEPT ![p].pc = "done", ![p].res = "empty"]
          ELSE \E j \in S :
                  procs' = [procs EXCEPT ![p].jobId = j, ![p].snap = store[j],
                                         ![p].jobs = Append(@, j), ![p].pc = "bwMark"]
    /\ UNCHANGED <<store, now, extracted, claims, store0>>

\* for (i = 0; i < MAX_JOBS_PER_RUN; i++): the query for the oldest pending
\* job of the user; break when it is empty.
BWFind(p) ==
    /\ procs[p].kind = "bounded"
    /\ procs[p].pc = "bwFind"
    /\ LET S == OrderByCreatedAtLimit(store, Query(store, procs[p].userId, "pending"), 1)
       IN IF procs[p].i >= MAX_JOBS_PER_RUN
          THEN procs' = [procs EXCEPT ![p].pc = "done", ![p].res = "limit"]
          ELSE IF S = {}
          THEN procs' = [procs EXCEPT ![p].pc = "done", ![p].res = "empty"]
          ELSE \E j \in S :
                  procs' = [procs EXCEPT ![p].jobId = j, ![p].snap = store[j],
                                         ![p].jobs = Append(@, j), ![p].pc = "bwMark"]
    /\ UNCHANGED <<store, now, extracted, claims, store0>>

\* update({status: 'processing', startedAt}).
BWMark(p) ==
    /\ procs[p].kind = "bounded"
    /\ procs[p].pc = "bwMark"
    /\ LET j == procs[p].jobId
       IN /\ Exists(store[j])
          /\ WriteDoc(j, [store[j] EXCEPT !.status = "processing", !.startedAt = now])
          /\ claims' = [claims EXCEPT ![j] = @ + 1]
    /\ Goto(p, "bwGemini")
    /\ UNCHANGED <<now, extracted, store0>>

\* callGeminiAPI: success with data, or {success: false}.
BWGemini(p) ==
    /\ procs[p].kind = "bounded"
    /\ procs[p].pc = "bwGemini"
    /\ \E ok \in BOOLEAN :
          procs' = [procs EXCEPT ![p].ok = ok,
                                 ![p].data = IF ok THEN "gemini" ELSE "upstream",
                                 ![p].pc = "bwSave"]
    /\ extracted' = [extracted EXCEPT ![procs[p].jobId] = @ \cup {p}]
    /\ UNCHANGED <<store, now, claims, store0>>

\* The update to completed or failed, the sleep, and i++.
BWSave(p) ==
    /\ procs[p].kind = "bounded"
    /\ procs[p].pc = "bwSave"
    /\ LET j == procs[p].jobId
       IN /\ Exists(store[j])
          /\ WriteDoc(j, Saved(store[j], procs[p].ok, procs[p].data, now))
    /\ procs' = [procs EXCEPT ![p].pc = "bwFind", ![p].i = @ + 1]
    /\ UNCHANGED <<now, extracted, claims, store0>>

\* An update inside the inner try rejects: control passes to its catch.
BWThrow(p) ==
    /\ procs[p].kind = "bounded"
    /\ procs[p].pc \in {"bwMark", "bwSave"}
    /\ procs' = [procs EXCEPT ![p].pc = "bwCatch"]
    /\ UNCHANGED <<store, now, extracted, claims, store0>>

\* catch: update({status: 'failed', error}), the sleep, and i++.
BWCatch(p) ==
    /\ procs[p].kind = "bounded"
    /\ procs[p].pc = "bwCatch"
    /\ LET j == procs[p].jobId
       IN /\ Exists(store[j])
          /\ WriteDoc(j, [store[j] EXCEPT !.status = "failed", !.error = "worker"])
    /\ procs' = [procs EXCEPT ![p].pc = "bwFind", ![p].i = @ + 1]
    /\ UNCHANGED <<now, extracted, claims, store0>>

\* The update of the catch block rejects: the outer catch logs it and the
\* handler returns.
BWCatchThrow(p) ==
    /\ procs[p].kind = "bounded"
    /\ procs[p].pc = "bwCatch"
    /\ procs' = [procs EXCEPT ![p].pc = "done", ![p].res = "thrown"]
    /\ UNCHANGED <<store, now, extracted, claims, store0>>

\* A pending or processing job of u1, or a pending job of u2.
BoundedDoc(what, c) ==
    IF what = "pending" THEN NewJob("u1", "cv", c)
    ELSE IF what = "processing" THEN Stuck("u1", c, 0)
    ELSE NewJob("u2", "cv", c)

\* A queue of BoundedJobs jobs created in the order of their ids or in the
\* reverse order, of which only job 1 may belong to u2, and one request.
InitBounded ==
    /\ \E reverse \in BOOLEAN :
       \E what \in [1..BoundedJobs -> {"pending", "processing", "other"}] :
          /\ \A j \in 2..BoundedJobs : what[j] # "other"
          /\ store = [j \in 1..BoundedJobs |->
                         BoundedDoc(what[j], IF reverse THEN BoundedJobs + 1 - j ELSE j)]
    /\ store0 = store
    /\ now = Now0
    /\ procs = <<BoundedWorker("u1")>>
    /\ extracted = [j \in JobIds |-> {}]
    /\ claims = [j \in JobIds |-> 0]

NextBounded ==
    \/ \E p \in ProcIds : BWResetRead(p)
    \/ \E p \in ProcIds : BWResetCommit(p)
    \/ \E p \in ProcIds : BWFind(p)
    \/ \E p \in ProcIds : BWMark(p)
    \/ \E p \in ProcIds : BWGemini(p)
    \/ \E p \in ProcIds : BWSave(p)
    \/ \E p \in ProcIds : BWThrow(p)
    \/ \E p \in ProcIds : BWCatch(p)
    \/ \E p \in ProcIds : BWCatchThrow(p)

SpecBounded == InitBounded /\ [][NextBounded]_vars

----------------------------------------------------------------------------
(* Claims about the claim protocol (specification SpecClaim) *)

ActiveProcs == {p \in ProcIds : Active(p)}
Finished(p) == Active(p) /\ procs[p].pc \in {"claimed", "done"}
Succeeded == {p \in ActiveProcs : procs[p].pc = "claimed" /\ procs[p].res = "success"}

\* Every invocation is a claimJob call for job 1 by the job's owner, and the
\* job was pending when they started.
C1Pre ==
    /\ store0[1].status = "pending"
    /\ \A p \in ActiveProcs : /\ procs[p].kind = "claimJob"
                              /\ procs[p].jobId = 1
                              /\ procs[p].userId = store0[1].userId

\* C1: N concurrent claimJob calls by the owner for one pending job: never two
\* successes, and once all have returned exactly one reports success, the other
\* N-1 report 'already in status' (NotClaimable) and the job is processing,
\* written to that status exactly once.
ThmC1 ==
    C1Pre =>
        /\ Cardinality(Succeeded) <= 1
        /\ (\A p \in ActiveProcs : Finished(p)) =>
              /\ Cardinality(Succeeded) = 1
              /\ \A p \in ActiveProcs \ Succeeded : procs[p].res = "NotClaimable"
              /\ store[1].status = "processing"
              /\ claims[1] = 1

\* Three claimJob calls for the same pending job have all returned.
WitC1 ==
    /\ C1Pre
    /\ Cardinality(ActiveProcs) >= 3
    /\ \A p \in ActiveProcs : Finished(p)
    /\ \E p \in ActiveProcs : procs[p].snap.status = "processing"

\* C5: when every claim attempt is one that must fail (job missing, owned by
\* another user, or not pending), none reports success and the stored job is
\* exactly as it was before the attempts.
CexC5 ==
    (\A p \in ActiveProcs :
        ClaimCheck(store0[procs[p].jobId], procs[p].userId) # "success")
    => /\ store = store0
       /\ \A p \in ActiveProcs : procs[p].res # "success"

----------------------------------------------------------------------------
(* Claims about the dispatch chain (specification Spec) *)

\* C3: once a job is completed or failed, no later step of any handler
\* changes its status, result, error or finish time; a terminal job can only
\* be deleted.
CexC3 ==
    [][\A j \in JobIds :
          IsTerminal(store[j]) /\ Exists(store'[j]) =>
              /\ store'[j].status = store[j].status
              /\ store'[j].result = store[j].result
              /\ store'[j].error = store[j].error
              /\ store'[j].finishedAt = store[j].finishedAt]_vars

AllowedTransitions ==
    {<<"pending", "processing">>, <<"processing", "completed">>,
     <<"processing", "failed">>, <<"processing", "pending">>}

\* C4: every change of a job's status is pending to processing, or
\* processing to completed, failed or pending; in particular a job never goes
\* from pending straight to completed or failed, also when the starter
\* cannot reach the worker.
CexC4 ==
    [][\A j \in JobIds :
          /\ Exists(store[j])
          /\ Exists(store'[j])
          /\ store'[j].status # store[j].status
          => <<store[j].status, store'[j].status>> \in AllowedTransitions]_vars

\* C8: the sweep of stuck jobs never changes a job that is processing and
\* was claimed less than the liveness window before the sweep.
CexC8 ==
    [][\A p \in ProcIds :
          SPStuckCommit(p) =>
              \A j \in JobIds :
                  /\ store[j].status = "processing"
                  /\ store[j].startedAt > now - FIVE_MINUTES
                  => store'[j] = store[j]]_vars

\* C15: a worker that has claimed a job and run the extraction (Gemini, then
\* the fallback when Gemini fails) saves the job as completed: a failure of
\* the upstream call alone never makes the job failed.
CexC15 ==
    [][\A p \in ProcIds :
          WSave(p) /\ Exists(store[procs[p].jobId]) =>
              store'[procs[p].jobId].status = "completed"]_vars

----------------------------------------------------------------------------
(* Claims about the retry cycle (specification SpecRetry) *)

\* Every extraction run for job j so far has failed.
AlwaysFails(j) == \A p \in extracted[j] : ~procs[p].ok

\* C6: a job whose every extraction fails is claimed at most MAX_RETRIES
\* times, and is marked failed only when it has been claimed exactly
\* MAX_RETRIES times.
CexC6 ==
    \A j \in JobIds :
        store0[j].status = "pending" /\ AlwaysFails(j) =>
            /\ claims[j] <= MAX_RETRIES
            /\ store[j].status = "failed" => claims[j] = MAX_RETRIES

\* C7: retryCount strictly increases on every reset from processing to
\* pending, never decreases, and is not changed by the first claim of a job.
CexC7 ==
    [][\A j \in JobIds :
          Exists(store[j]) /\ Exists(store'[j]) =>
              /\ store'[j].retryCount >= store[j].retryCount
              /\ store[j].status = "processing" /\ store'[j].status = "pending"
                 => store'[j].retryCount > store[j].retryCount
              /\ store[j].status = "pending" /\ store'[j].status = "processing"
                    /\ claims[j] = 0
                 => store'[j].retryCount = store[j].retryCount]_vars

\* C14: when an unexpected exception reaches the catch block of a worker
\* that has claimed its job, the job is written to failed (or pending) and
\* the worker goes on to trigger the owner's next pending job.
CexC14 ==
    [][\A p \in ProcIds :
          BGCatch(p) =>
              /\ store'[procs[p].jobId].status \in {"failed", "pending"}
              /\ procs'[p].pc = "bgNext"]_vars

\* C21: a worker that has claimed a job writes it out of processing before
\* it answers: no invocation that has sent its answer still holds a claimed
\* job in processing with the extraction or the save ahead of it.
CexC21 ==
    \A p \in ProcIds :
        procs[p].kind = "bg" /\ procs[p].resp # 0 =>
            ~(/\ procs[p].pc \in {"bgGemini", "bgSave"}
              /\ store[procs[p].jobId].status = "processing")

\* C26: every completed or failed job has finishedAt set and exactly one
\* outcome, a result when completed and an error when failed, whichever
\* path wrote the terminal status.
CexC26 ==
    \A j \in JobIds :
        IsTerminal(store[j]) =>
            /\ store[j].finishedAt # None
            /\ store[j].status = "completed" =>
                  store[j].result # "none" /\ store[j].error = "none"
            /\ store[j].status = "failed" =>
                  store[j].error # "none" /\ store[j].result = "none"

----------------------------------------------------------------------------
(* Claims about draining (specification SpecDrain) *)

\* C2: when two invocations of the drain handler run concurrently for one
\* owner, no job is handed to the extractor by more than one invocation.
CexC2 == \A j \in JobIds : Cardinality(extracted[j]) <= 1

\* C10: whenever the dispatcher selects jobs, no pending job of the owner
\* with a strictly smaller createdAt than a selected job is left unselected.
CexC10 ==
    [][\A p \in ProcIds :
          PBFind(p) =>
              \A j \in JobIds, k \in Query(store, procs[p].userId, "pending") :
                  /\ procs'[p].plan[j] = "mark"
                  /\ procs'[p].plan[k] # "mark"
                  => ~(store[k].createdAt < store[j].createdAt)]_vars

\* C11: the number of an owner's jobs that are processing at the same time
\* never exceeds the dispatcher's concurrency limit, here the largest
\* batchSize any of the batch invocations was asked for.
CexC11 ==
    \A u \in Users, p \in ProcIds :
        /\ procs[p].kind = "batch"
        /\ \A q \in ProcIds : procs[q].kind = "batch" => procs[q].batchSize <= procs[p].batchSize
        => Cardinality(Query(store, u, "processing")) <= procs[p].batchSize

\* The user of invocation p has no pending job.
QueueEmpty(p) ==
    \A j \in JobIds : ~(store[j].userId = procs[p].userId /\ store[j].status = "pending")

\* C13: process-batch called for an owner with no pending job answers 200
\* with processed 0, changes no job record and starts no further request.
ThmC13 ==
    [][\A p \in ProcIds :
          PBFind(p) /\ QueueEmpty(p) =>
              /\ store' = store
              /\ procs'[p].pc = "done"
              /\ procs'[p].resp = 200
              /\ procs'[p].nOk = 0
              /\ \A w \in ProcIds \ {p} : procs'[w] = procs[w]]_vars

\* An invocation has answered a user without pending jobs while another
\* user's job is pending.
WitC13 ==
    \E p \in ProcIds :
        /\ procs[p].kind = "batch"
        /\ procs[p].pc = "done"
        /\ procs[p].plan = NoPlan
        /\ procs[p].resp = 200
        /\ store = store0
        /\ \E j \in JobIds : store[j].userId = "u2" /\ store[j].status = "pending"

----------------------------------------------------------------------------
(* Claims about the sweeps (specification SpecSweep) *)

\* The liveness window of the sweep that invocation q runs.
Window(q) ==
    IF q.kind = "cron" THEN TEN_MINUTES
    ELSE IF q.kind = "basicStart" THEN FIVE_MINUTES
    ELSE NINETY_SECONDS

\* C9: when a sweep has completed, with no worker running, no job of the
\* sweep's owner (of any owner, for the crons) is still processing with a
\* startedAt older than the liveness window at the time of the sweep,
\* however many stuck jobs there are.
CexC9 ==
    \A p \in ProcIds :
        procs[p].pc = "done" /\ procs[p].resp \in {200, 202} =>
            \A j \in JobIds :
                ~ /\ procs[p].kind = "basicStart" => store[j].userId = procs[p].userId
                  /\ store[j].status = "processing"
                  /\ store[j].startedAt # None
                  /\ store[j].startedAt < procs[p].tnow - Window(procs[p])

\* C24: a failure on one stuck job does not abort the sweep: when the
\* health check has ended, at most the job whose update failed is still
\* processing among the stuck jobs it found.
CexC24 ==
    \A p \in ProcIds :
        procs[p].kind = "health" /\ procs[p].pc = "done" =>
            Cardinality({k \in 1..Len(procs[p].jobs) :
                            store[procs[p].jobs[k]].status = "processing"}) <= 1

----------------------------------------------------------------------------
(* Claims about the chain under fairness (specification SpecLive) *)

\* Every job of the triggering user is completed or failed.
Drained == \A j \in JobIds : store[j].userId = "u1" => IsTerminal(store[j])

----------------------------------------------------------------------------
(* Claims about the fallback extractor (specification SpecFallback) *)

\* The requested-field shape: nome, and every requested field with its type.
HasShape(data, selectedFields) ==
    /\ "nome" \in DOMAIN data
    /\ data["nome"] \in STRING
    /\ "idade" \in selectedFields =>
          "idade" \in DOMAIN data /\ data["idade"] \in Int
    /\ "email" \in selectedFields =>
          "email" \in DOMAIN data /\ data["email"] \in STRING
    /\ "contatos" \in selectedFields =>
          "contatos" \in DOMAIN data /\ data["contatos"] \in Seq(STRING)

\* C16: for every selection of fields and every text, the result of the
\* fallback extractor holds nome and every requested field (idade a number,
\* email a string, contatos a list), whether or not its pattern matched.
CexC16 ==
    \A p \in ProcIds :
        procs[p].kind = "fallback" /\ procs[p].pc = "done" =>
            /\ procs[p].result.success
            /\ HasShape(procs[p].result.data, procs[p].selectedFields)

----------------------------------------------------------------------------
(* Claims about the status operation's answer (specification SpecStats) *)

\* C17: the answer's needsProcessing is true exactly when the owner has at
\* least one pending job and no processing job, whatever the per-status
\* counts of the owner's jobs are.
CexC17 ==
    \A p \in ProcIds :
        procs[p].kind = "stats" /\ procs[p].pc = "done" =>
            (("needsProcessing" \in DOMAIN procs[p].body /\ procs[p].body.needsProcessing)
             <=> (store["pending"] > 0 /\ store["processing"] = 0))

----------------------------------------------------------------------------
(* Claims about the status operation on a queue (specification SpecStatus) *)

\* The queue of the scenario: three completed jobs, one job processing for
\* longer than the window, one pending job.
Scenario(st) ==
    /\ Cardinality({j \in JobIds : st[j].status = "completed"}) = 3
    /\ Cardinality({j \in JobIds : st[j].status = "processing"
                                   /\ st[j].startedAt < Now0 - TEN_MINUTES}) = 1
    /\ Cardinality({j \in JobIds : st[j].status = "pending"}) = 1
    /\ Cardinality({j \in JobIds : Exists(st[j])}) = 5

\* C18: for an owner with 3 completed jobs, 1 job processing beyond the
\* window and 1 pending job, the answer has needsProcessing true and
\* isStuck true.
CexC18 ==
    \A p \in ProcIds :
        procs[p].kind = "status" /\ procs[p].pc = "done" /\ Scenario(store0) =>
            /\ procs[p].body.needsProcessing
            /\ "isStuck" \in DOMAIN procs[p].body
            /\ procs[p].body.isStuck

\* C19: the status operation is a pure read: after a call, and whatever
\* follows from it, every job record is as it was before the call and no
\* job has been claimed.
CexC19 ==
    /\ store = store0
    /\ \A j \in JobIds : claims[j] = 0

----------------------------------------------------------------------------
(* Claims about the retention sweep (specification SpecRetention) *)

\* C20: the retention sweep deletes only jobs that are completed or failed
\* and whose finishedAt lies at least the retention window before the time
\* of the delete: never a pending or processing job, never a terminal job
\* younger than the window.
CexC20 ==
    [][\A p \in ProcIds :
          CACommit(p) =>
              \A j \in JobIds :
                  Exists(store[j]) /\ ~Exists(store'[j]) =>
                      /\ IsTerminal(store[j])
                      /\ store[j].finishedAt # None
                      /\ store[j].finishedAt <= now - procs[p].i * ONE_HOUR]_vars

----------------------------------------------------------------------------
(* Claims about the reclaimer run twice (specification SpecReclaim) *)

\* The reclaimer of invocation p has returned.
Reclaimed(p) == procs[p].pc \in {"findPending", "scPending"}

\* The queue st after one run of the reclaimer of the given kind for owner
\* u at time t.
RunOnce(st, kind, u, t) ==
    [j \in JobIds |->
        IF st[j].userId = u /\ st[j].status = "processing"
        THEN IF kind = "start"
             THEN StuckWrite(st[j], StuckPlan(st[j], t), t)
             ELSE SelfWrite(st[j], SelfPlan(st[j], t), st[j], t)
        ELSE st[j]]

\* The numbers of resets and kills an invocation reports.
Reported(p) == Cardinality({j \in JobIds : procs[p].plan[j] \in {"reset", "fail"}})

\* C22: two runs of the reclaimer for one owner, one after the other or
\* overlapping, leave every job with the status and the retry counter that a
\* single run leaves; a run that starts after another has returned reports
\* reset 0 and failed 0.
ThmC22 ==
    /\ [](( \A p \in ProcIds : Reclaimed(p)) =>
            \E q \in ProcIds :
                LET once == RunOnce(store0, procs[q].kind, procs[q].userId, procs[q].tnow)
                IN \A j \in JobIds : /\ store[j].status = once[j].status
                                    /\ store[j].retryCount = once[j].retryCount)
    /\ [][\A p \in ProcIds :
             /\ SPStuckRead(p) \/ SCStuckRead(p)
             /\ \E q \in ProcIds \ {p} : Reclaimed(q)
             => Reported(p)' = 0]_vars

\* Both runs found the owner's processing jobs, a tick apart, and returned.
WitC22 ==
    /\ \A p \in ProcIds : Reclaimed(p) /\ Reported(p) > 0
    /\ procs[1].tnow # procs[2].tnow
    /\ \E j \in JobIds : store0[j].status = "processing" /\ store[j].status = "failed"

----------------------------------------------------------------------------
(* Claims about one request to the worker (specification SpecJobRequest) *)

\* C23: when the job named in the request cannot be claimed (it is missing,
\* belongs to another user, or is not pending), the worker leaves the job
\* as it is and goes on to trigger the owner's next pending job.
CexC23 ==
    [][\A p \in ProcIds :
          /\ BGGet(p)
          /\ ClaimCheck(store[procs[p].jobId], procs[p].userId) # "success"
          => store' = store /\ procs'[p].pc = "bgNext"]_vars

----------------------------------------------------------------------------
(* Claims about the single worker (specification SpecQueueWorker) *)

\* C25: an entry point answers every request with an HTTP response whatever
\* the store or the extractor does: no exception leaves the handler, not
\* even from inside its error-handling branch.
CexC25 ==
    \A p \in ProcIds :
        procs[p].kind = "queueWorker" => procs[p].pc # "escaped"

----------------------------------------------------------------------------
(* Claims about the batch starter (specification SpecBasic) *)

\* C28: no claim, reset, kill or result write changes a job's userId, text
\* or createdAt; a job reset to pending keeps its createdAt, so no selection
\* takes a younger job while it leaves a reset job pending.
CexC28 ==
    /\ [](\A j \in JobIds :
             Exists(store[j]) =>
                 /\ store[j].userId = store0[j].userId
                 /\ store[j].text = store0[j].text
                 /\ store[j].createdAt = store0[j].createdAt)
    /\ [][\A p \in ProcIds :
             PBFind(p) =>
                 \A j \in JobIds, k \in Query(store, procs[p].userId, "pending") :
                     /\ store[k].resetAt # None
                     /\ procs'[p].plan[j] = "mark"
                     /\ procs'[p].plan[k] # "mark"
                     => ~(store[k].createdAt < store[j].createdAt)]_vars

----------------------------------------------------------------------------
(* Claims about the answer of start-processing (specification SpecTrigger) *)

\* The jobs findPendingJobs returns for user u on queue st: the pending jobs
\* of the user, at most MAX_SIMULTANEOUS of them.
Found(st, u) ==
    LET n == Cardinality(Query(st, u, "pending"))
    IN IF n < MAX_SIMULTANEOUS THEN n ELSE MAX_SIMULTANEOUS

\* The answer of a finished start-processing request against what it found
\* and what its triggers returned.
Answered(p) ==
    LET q == procs[p]
        found == Len(q.jobs)
    IN /\ found = Found(store0, q.userId)
       /\ (q.resp = 202) <=> (found > 0 /\ q.nOk > 0)
       /\ (q.resp = 200) <=> (found = 0)
       /\ (q.resp = 500) <=> (found > 0 /\ q.nOk = 0)
       /\ found > 0 => q.nOk + q.nFail = found

\* One round of triggerMultipleJobs counts one result: an accepted trigger
\* counts as successful, a trigger that failed as failed.
Counted(p) ==
    /\ SPAwaitOk(p) => /\ procs'[p].nOk = procs[p].nOk + 1
                       /\ procs'[p].nFail = procs[p].nFail
    /\ SPMarkFailed(p) => /\ procs'[p].nOk = procs[p].nOk
                          /\ procs'[p].nFail = procs[p].nFail + 1
    /\ procs[p].kind = "start" /\ ~ SPAwaitOk(p) /\ ~ SPMarkFailed(p)
          => /\ procs'[p].nOk = procs[p].nOk
             /\ procs'[p].nFail = procs[p].nFail

\* C29: start-processing answers 202 exactly when it found a pending job and
\* at least one trigger was accepted, 200 when it found no pending job, 500
\* when it found pending jobs and every trigger failed; the successful and
\* failed counts add up to the number of pending jobs found.
ThmC29 ==
    /\ [](\A p \in ProcIds : procs[p].kind = "start" /\ procs[p].pc = "done"
                                => Answered(p))
    /\ [][\A p \in ProcIds : Counted(p)]_vars

\* A request that found MAX_SIMULTANEOUS pending jobs, had triggers accepted
\* and triggers failed, and answered 202 with both counts.
WitC29 ==
    \E p \in ProcIds :
        /\ procs[p].kind = "start"
        /\ procs[p].pc = "done"
        /\ procs[p].resp = 202
        /\ Len(procs[p].jobs) = MAX_SIMULTANEOUS
        /\ procs[p].nOk > 0
        /\ procs[p].nFail > 0
        /\ procs[p].nOk + procs[p].nFail = Cardinality(Query(store0, "u1", "pending"))

----------------------------------------------------------------------------
(* Claims about the size of the batches (specification SpecCeiling) *)

\* The documents a step writes or deletes.
Written == {j \in JobIds : store'[j] # store[j]}

\* The terminal jobs the request of p found, and the documents deleted
\* since the request arrived.
Deleted == {j \in JobIds : Exists(store0[j]) /\ ~ Exists(store[j])}

\* C30: no batch that the retention sweep or the reclaimer commits holds
\* more than BATCH_OPERATIONS operations, however many jobs match, and the
\* deletes committed are as many as the terminal jobs found.
CexC30 ==
    /\ [](\A p \in ProcIds :
            procs[p].kind \in {"cron", "cleanupApi"} /\ procs[p].pc = "done"
                => Cardinality(Deleted) = procs[p].nOk)
    /\ [][\A p \in ProcIds :
            CCDelete(p) \/ CCStuckCommit(p) \/ CACommit(p)
                => Cardinality(Written) <= BATCH_OPERATIONS]_vars

----------------------------------------------------------------------------
(* Claims about concurrent single workers (specification SpecQueueRace) *)

\* C31: with any number of concurrent requests to the single worker, at
\* most one job is in status processing at any time.
CexC31 == Cardinality({j \in JobIds : store[j].status = "processing"}) <= 1

----------------------------------------------------------------------------
(* Claims about the Gemini proxy (specification SpecProxy) *)

\* The last upstream answer of request p.
Last(p) == procs[p].snap

\* C32: the proxy calls upstream at most maxRetries times; a request that
\* has answered answers 200 when the last upstream answer is OK with
\* content, the upstream status when that is neither OK nor 429, and 500
\* only after maxRetries calls when the last answer was 429 or empty;
\* the base delay has doubled once per 429 and not otherwise.
CexC32 ==
    \A p \in ProcIds : procs[p].kind = "proxy" =>
        /\ procs[p].nOk <= maxRetries
        /\ procs[p].nOk > 0 /\ procs[p].pc = "done" =>
              /\ Last(p).status = 200 /\ Last(p).content # "" => procs[p].resp = 200
              /\ Last(p).status \in ErrorStatus => procs[p].resp = Last(p).status
              /\ Last(p).status = 429 \/ (Last(p).status = 200 /\ Last(p).content = "")
                    => procs[p].resp = 500 /\ procs[p].nOk = maxRetries

----------------------------------------------------------------------------
(* Claims about ownership (specification SpecJobRequest, where every        *)
(* request carries userId "u1")                                             *)

\* The jobs that were written or handed to the extractor since the request
\* arrived.
Touched == {j \in JobIds : store[j] # store0[j] \/ extracted[j] # {}}

\* C33: a request that carries userId u never modifies a job of another
\* owner and never hands one to the extractor, on any path of the worker.
CexC33 ==
    /\ \A p \in ProcIds : Active(p) => procs[p].userId = "u1"
    /\ \A j \in Touched : store0[j].userId = "u1"

----------------------------------------------------------------------------
(* Claims about isComplete and progress (specification SpecProgress) *)

\* C34: for every combination of per-status counts within the query limit,
\* the answer has isComplete true only when the owner has no pending and no
\* processing job; progress is the rounded percentage of completed plus
\* failed jobs over the total.
CexC34 ==
    \A p \in ProcIds :
        procs[p].kind = "stats" /\ procs[p].pc = "done" /\ Total(store) > 0 =>
            /\ procs[p].body.progress
                  = Progress(store["completed"] + store["failed"], Total(store))
            /\ procs[p].body.isComplete
                  => store["pending"] = 0 /\ store["processing"] = 0

----------------------------------------------------------------------------
(* Claims about one sweep of cleanupStuckJobs (specification SpecOnce) *)

\* The sweep of invocation p has returned.
Swept(p) == procs[p].pc \in {"findPending", "tsPending"}

\* resetCount and failedCount of the result: one per update in the batch.
ResetCount(p) == Cardinality({j \in JobIds : procs[p].plan[j] = "reset"})
FailedCount(p) == Cardinality({j \in JobIds : procs[p].plan[j] = "fail"})

\* The owner's processing jobs in queue st.
Processing(st, u) == {j \in JobIds : st[j].userId = u /\ st[j].status = "processing"}

\* Document doc went through the reset or through the kill of a sweep that
\* started at t, and nothing else of it changed.
OneTransition(doc0, doc, t) ==
    \/ doc = [doc0 EXCEPT !.status = "pending", !.resetAt = t]
    \/ doc = [doc0 EXCEPT !.status = "failed", !.finishedAt = t, !.error = "stuck"]

----------------------------------------------------------------------------
(* Claims about the looping worker (specification SpecLoop) *)

\* Invocation p ends a round of its loop with this step.
EndsRound(p) ==
    /\ procs[p].kind \in LoopKinds
    /\ procs[p].pc \in {"lwSave", "lwCatch"}
    /\ procs'[p].pc \in {"lwFind", "escaped"}

\* C36: with no job enqueued, every round of the looping worker leaves the
\* pending job it selected out of status pending (so the owner's pending
\* jobs are fewer after each round), also when a write to the store fails
\* inside the round.
CexC36 ==
    [][\A p \in ProcIds : EndsRound(p) => store'[procs[p].jobId].status # "pending"]_vars

----------------------------------------------------------------------------
(* Claims about the bounded batch worker (specification SpecBounded) *)

\* The jobs in status processing that the invocation marked itself.
InHand == {j \in JobIds : store[j].status = "processing" /\ claims[j] > 0}

\* Sequence s of jobs is in the order of createdAt, oldest first.
InCreatedOrder(s) ==
    \A k, l \in 1..Len(s) : k < l => store0[s[k]].createdAt < store0[s[l]].createdAt

\* C37: one invocation of the bounded batch worker selects at most
\* MAX_JOBS_PER_RUN jobs and hands at most that many to the extractor, one
\* job at a time, each the oldest pending job of the owner, in createdAt
\* order; it stops before the limit only when the owner has no pending job
\* (or a write of its catch block was rejected).
ThmC37 ==
    \A p \in ProcIds : procs[p].kind = "bounded" =>
        /\ Len(procs[p].jobs) <= MAX_JOBS_PER_RUN
        /\ Cardinality({j \in JobIds : extracted[j] # {}}) <= MAX_JOBS_PER_RUN
        /\ Cardinality(InHand) <= 1
        /\ InCreatedOrder(procs[p].jobs)
        /\ \A k \in 1..Len(procs[p].jobs) : store0[procs[p].jobs[k]].userId = procs[p].userId
        /\ procs[p].pc = "bwMark" =>
              \A k \in Query(store, procs[p].userId, "pending") :
                  store[procs[p].jobId].createdAt <= store[k].createdAt
        /\ procs[p].pc = "done" /\ procs[p].res = "empty" =>
              Query(store, procs[p].userId, "pending") = {}
        /\ procs[p].pc = "done" /\ procs[p].res = "limit" =>
              Len(procs[p].jobs) = MAX_JOBS_PER_RUN

\* A run that stopped at the limit with a pending job of the owner left,
\* on a queue created in the reverse order of its ids.
WitC37 ==
    \E p \in ProcIds :
        /\ procs[p].kind = "bounded"
        /\ procs[p].pc = "done"
        /\ procs[p].res = "limit"
        /\ Len(procs[p].jobs) = MAX_JOBS_PER_RUN
        /\ procs[p].jobs[1] > procs[p].jobs[2]
        /\ Query(store, procs[p].userId, "pending") # {}
        /\ \E j \in JobIds : store0[j].status = "processing" /\ store[j].status = "completed"

----------------------------------------------------------------------------
(* Claims about the counts of the status answer (specification SpecStats) *)

\* C38: the counts of the status answer add up, total = pending +
\* processing + completed + failed, and each per-status count is the number
\* of the owner's jobs in that status when the query ran.
CexC38 ==
    \A p \in ProcIds :
        procs[p].kind = "stats" /\ procs[p].pc = "done" =>
            LET body == procs[p].body
            IN /\ body.total = body.pending + body.processing + body.completed + body.failed
               /\ body.pending = store["pending"]
               /\ body.processing = store["processing"]
               /\ body.completed = store["completed"]
               /\ body.failed = store["failed"]

====
